---------------------------- MODULE Spec2Model ----------------------------
(***************************************************************************)
(* Model of the recipe retrieval path of the Bar Assistant MCP server:     *)
(* handleGetRecipe, handleBatchRecipeRequest, handleSingleRecipeRequest,   *)
(* fetchCompleteRecipes, fetchCompleteRecipesBatch, getCocktailWithFallback*)
(* and formatCocktailResult (src/src/bar-assistant-mcp-server.ts), the     *)
(* client's findCocktailByName (src/unnamed/part_000) and the recipe cache *)
(* they share.  One request is handled at a time; every await of an        *)
(* upstream call is a separate step, so that time may pass and calls of    *)
(* one chunk may settle in any order.  Requests are issued without         *)
(* include_variations.  The client's findSimilarCocktails with its scoring *)
(* (src/unnamed/part_000) and the limit arithmetic of the batch request    *)
(* have specifications of their own (SimSpec, ScoreSpec, LimitSpec).       *)
(***************************************************************************)
EXTENDS Integers, Sequences, FiniteSets, TLC

(***************************************************************************)
(* Bounds of the model.                                                    *)
(***************************************************************************)
ExtraRefs == 1
MaxTicks == 2
TickMs == 150000

(***************************************************************************)
(* Program constants.                                                      *)
(***************************************************************************)
batchSize == 5
cacheTtl == 5 * 60 * 1000
cacheMaxSize == 1000
defaultLimit == 10
maxLimit == 20

\* the catalog
Ids == {1, 2}
Names == {"Negroni", "Old Fashioned"}

(***************************************************************************)
(* Optional values: a field that may be undefined is a set with at most    *)
(* one element.                                                            *)
(***************************************************************************)
None == {}
Some(x) == {x}
IsSome(o) == o # {}
Get(o) == CHOOSE x \in o : TRUE

(***************************************************************************)
(* Records of the upstream catalog and the records the server builds.      *)
(***************************************************************************)
\* what GET /api/cocktails/{id} returns when it succeeds
Detail(i) ==
  [id |-> i, name |-> Some("Recipe"), ingredients |-> Some(<<"Gin", "Campari">>),
   short_ingredients |-> None, instructions |-> Some(<<"Stir", "Strain">>)]

\* an element of the data of a search response
Summary(i) ==
  [id |-> i, name |-> Some("Recipe"), ingredients |-> None,
   short_ingredients |-> Some(<<"Gin", "Campari">>), instructions |-> None]

\* handleBatchRecipeRequest: resolvedCocktails.map(r => ({ id: r.id }))
MockCocktail(i) ==
  [id |-> i, name |-> None, ingredients |-> None,
   short_ingredients |-> None, instructions |-> None]

\* getCocktailWithFallback: the minimal structure returned last
MinimalStructure(i) ==
  [id |-> i, name |-> Some("Unknown Cocktail"), ingredients |-> Some(<<>>),
   short_ingredients |-> None, instructions |-> Some(<<>>)]

(***************************************************************************)
(* formatCocktailResult: ingredients || short_ingredients || [] mapped to  *)
(* IngredientInfo, the instructions array mapped to numbered steps, name   *)
(* copied as it is (undefined stays undefined).                            *)
(***************************************************************************)
formatIngredient(ing) == [name |-> ing, formatted |-> ing]

formatCocktailResult(cocktail) ==
  LET ingredientsList ==
        IF IsSome(cocktail.ingredients) THEN Get(cocktail.ingredients)
        ELSE IF IsSome(cocktail.short_ingredients) THEN Get(cocktail.short_ingredients)
        ELSE <<>>
      rawInstructions ==
        IF IsSome(cocktail.instructions) THEN Get(cocktail.instructions) ELSE <<>>
  IN [id |-> cocktail.id,
      name |-> cocktail.name,
      ingredients |-> [k \in 1..Len(ingredientsList) |-> formatIngredient(ingredientsList[k])],
      instructions |-> [k \in 1..Len(rawInstructions) |->
                          [step |-> k, instruction |-> rawInstructions[k]]]]

\* the explanatory entries fetchCompleteRecipesBatch substitutes on its rejected branch
PlaceholderIngredients ==
  << [name |-> "Recipe details unavailable",
      formatted |-> "Complete recipe not available - ingredients list missing"] >>

PlaceholderInstructions ==
  << [step |-> 1,
      instruction |-> "Complete instructions not available - please refer to source or try getting recipe by ID"] >>

\* fetchCompleteRecipesBatch, rejected branch: format the original and fill empty lists
formatFallbackResult(originalCocktail) ==
  LET fallbackResult == formatCocktailResult(originalCocktail)
  IN [fallbackResult EXCEPT
        !.ingredients = IF Len(@) = 0 THEN PlaceholderIngredients ELSE @,
        !.instructions = IF Len(@) = 0 THEN PlaceholderInstructions ELSE @]

(***************************************************************************)
(* The bounded TTL cache (CacheManager).  Entries are kept in insertion    *)
(* order; an entry is [key, value, expiresAt].                             *)
(***************************************************************************)
RECURSIVE CacheIndex(_, _)
CacheIndex(c, k) ==
  IF c = <<>> THEN 0
  ELSE IF c[Len(c)].key = k THEN Len(c)
  ELSE CacheIndex(SubSeq(c, 1, Len(c) - 1), k)

RemoveAt(s, i) == SubSeq(s, 1, i - 1) \o SubSeq(s, i + 1, Len(s))

\* variant of CacheGet: an entry is still served at the instant it expires
CacheGet_inclusive(c, k, t) ==
  LET i == CacheIndex(c, k)
  IN IF i = 0 THEN [hit |-> FALSE, value |-> None, cache |-> c]
     ELSE IF t > c[i].expiresAt
       THEN [hit |-> FALSE, value |-> None, cache |-> RemoveAt(c, i)]
       ELSE [hit |-> TRUE, value |-> Some(c[i].value), cache |-> c]

\* get: a hit returns the value and leaves the entry alone; an expired entry is removed
CacheGet(c, k, t) ==
  LET i == CacheIndex(c, k)
  IN IF i = 0 THEN [hit |-> FALSE, value |-> None, cache |-> c]
     ELSE IF t >= c[i].expiresAt
       THEN [hit |-> FALSE, value |-> None, cache |-> RemoveAt(c, i)]
       ELSE [hit |-> TRUE, value |-> Some(c[i].value), cache |-> c]

\* variant of EvictIndex: the most recently inserted entry is evicted
EvictIndex_newest(c) ==
  Len(c)

\* index of the entry with the earliest expiresAt, the oldest inserted on a tie
EvictIndex(c) ==
  CHOOSE i \in 1..Len(c) :
    \A j \in 1..Len(c) :
      \/ c[i].expiresAt < c[j].expiresAt
      \/ (c[i].expiresAt = c[j].expiresAt /\ i <= j)

RECURSIVE EvictDown(_, _)
EvictDown(c, maxSize) ==
  IF Len(c) <= maxSize THEN c ELSE EvictDown(RemoveAt(c, EvictIndex(c)), maxSize)

\* set: insert or overwrite value and expiry, then evict back to maxSize
CacheSet(c, k, v, t, ttl, maxSize) ==
  LET i == CacheIndex(c, k)
      e == [key |-> k, value |-> v, expiresAt |-> t + ttl]
      c1 == IF i = 0 THEN Append(c, e) ELSE [c EXCEPT ![i] = e]
  IN EvictDown(c1, maxSize)

getCachedRecipe(c, id, t) == CacheGet(c, id, t)
setCachedRecipe(c, id, recipe, t) == CacheSet(c, id, recipe, t, cacheTtl, cacheMaxSize)

\* the keys whose entry is live at time t
LiveKeys(c, t) == {c[i].key : i \in {j \in 1..Len(c) : t < c[j].expiresAt}}


(***************************************************************************)
(* Small helpers.                                                          *)
(***************************************************************************)
Min(a, b) == IF a < b THEN a ELSE b
Max(a, b) == IF a > b THEN a ELSE b

\* Array.prototype.slice(0, end): a negative end counts from the end of the array
SliceTo(s, end) ==
  LET e == IF end < 0 THEN Max(Len(s) + end, 0) ELSE Min(end, Len(s))
  IN SubSeq(s, 1, e)

\* name.split(' ').length for the names of the model
WordCount(name) == IF name = "Old Fashioned" THEN 2 ELSE 1

(***************************************************************************)
(* The requests the model issues.  A number that is absent is 0 and a      *)
(* string that is absent is "": the handlers test them by truthiness only. *)
(* An array that is absent is None, an empty array is Some(<<>>), which is *)
(* truthy.                                                                 *)
(***************************************************************************)
NoArgs ==
  [cocktail_id |-> 0, cocktail_name |-> "", cocktail_ids |-> None,
   cocktail_names |-> None, limit |-> 0]

\* a list long enough to need a second chunk
LongIds == [k \in 1..(batchSize + ExtraRefs) |-> ((k - 1) % 2) + 1]

SingleArgs ==
  {NoArgs} \cup {[NoArgs EXCEPT !.cocktail_id = i] : i \in Ids}
    \cup {[NoArgs EXCEPT !.cocktail_name = n] : n \in Names}

BatchArgs ==
  {[NoArgs EXCEPT !.cocktail_ids = Some(ids)] : ids \in {<<>>, <<1, 2>>, LongIds}}
    \cup {[NoArgs EXCEPT !.cocktail_names = Some(names)] :
            names \in {<<>>, <<"Old Fashioned", "Negroni">>}}
    \cup {[NoArgs EXCEPT !.cocktail_ids = Some(<<2>>),
                         !.cocktail_names = Some(<<"Negroni">>), !.limit = l] :
            l \in {0, 1}}
    \cup {[NoArgs EXCEPT !.cocktail_ids = Some(<<>>), !.cocktail_names = Some(<<>>)]}

ArgsSet == SingleArgs \cup BatchArgs

(***************************************************************************)
(* handleGetRecipe: routing and the effective limit.                       *)
(***************************************************************************)
isBatchRequest(a) == IsSome(a.cocktail_ids) \/ IsSome(a.cocktail_names)

effectiveLimit(a) == Min(IF a.limit = 0 THEN defaultLimit ELSE a.limit, maxLimit)

\* handleBatchRecipeRequest: collect the requests, ids before names
collectRequests(a, limit) ==
  LET idReqs ==
        IF IsSome(a.cocktail_ids)
        THEN LET ids == SliceTo(Get(a.cocktail_ids), limit)
             IN [k \in 1..Len(ids) |-> [id |-> ids[k], name |-> ""]]
        ELSE <<>>
      remainingSlots == limit - Len(idReqs)
      nameReqs ==
        IF IsSome(a.cocktail_names)
        THEN LET names == SliceTo(Get(a.cocktail_names), remainingSlots)
             IN [k \in 1..Len(names) |-> [id |-> 0, name |-> names[k]]]
        ELSE <<>>
  IN idReqs \o nameReqs

\* variant of route: the length check of the collected requests is missing
route_noLengthCheck(a) ==
  IF isBatchRequest(a) THEN "batch"
  ELSE IF a.cocktail_id # 0 THEN "byId"
  ELSE IF a.cocktail_name # "" THEN "byName"
  ELSE "MissingInformation"

\* which branch of handleGetRecipe and of the handler it calls a request takes
route(a) ==
  IF isBatchRequest(a)
  THEN IF Len(collectRequests(a, effectiveLimit(a))) = 0 THEN "NoCocktailsSpecified"
       ELSE "batch"
  ELSE IF a.cocktail_id # 0 THEN "byId"
  ELSE IF a.cocktail_name # "" THEN "byName"
  ELSE "MissingInformation"

(***************************************************************************)
(* fetchCompleteRecipes, first loop: consult the cache for every cocktail. *)
(* Returns the formatted hits, the uncached cocktails and the cache as the *)
(* reads leave it.                                                         *)
(***************************************************************************)
\* variant of consultCache: a cache hit is pushed to the uncached list as well
RECURSIVE consultCache_refetchHits(_, _, _)
consultCache_refetchHits(cocktails, c, t) ==
  IF cocktails = <<>>
  THEN [results |-> <<>>, uncached |-> <<>>, cache |-> c, hits |-> {}]
  ELSE LET g == getCachedRecipe(c, cocktails[1].id, t)
           rest == consultCache_refetchHits(Tail(cocktails), g.cache, t)
       IN IF g.hit
          THEN [rest EXCEPT !.results = <<formatCocktailResult(Get(g.value))>> \o @,
                            !.uncached = <<cocktails[1]>> \o @,
                            !.hits = @ \cup {cocktails[1].id}]
          ELSE [rest EXCEPT !.uncached = <<cocktails[1]>> \o @]

RECURSIVE consultCache(_, _, _)
consultCache(cocktails, c, t) ==
  IF cocktails = <<>>
  THEN [results |-> <<>>, uncached |-> <<>>, cache |-> c, hits |-> {}]
  ELSE LET g == getCachedRecipe(c, cocktails[1].id, t)
           rest == consultCache(Tail(cocktails), g.cache, t)
       IN IF g.hit
          THEN [rest EXCEPT !.results = <<formatCocktailResult(Get(g.value))>> \o @,
                            !.hits = @ \cup {cocktails[1].id}]
          ELSE [rest EXCEPT !.uncached = <<cocktails[1]>> \o @]

(***************************************************************************)
(* getCocktailWithFallback, one call: the state it is in after the primary *)
(* detail fetch failed, and the value it returns after the search settled. *)
(* A search outcome is "reject", "empty" or "hit"; the first hit of the    *)
(* id-targeted search is the summary of the cocktail searched for.         *)
(***************************************************************************)
SearchOutcomes == {"reject", "empty", "hit"}

\* variant of afterPrimaryFailure: the search is tried whether or not there is fallback data
afterPrimaryFailure_alwaysSearch(cocktailId, fallbackData) ==
  [st |-> "search", value |-> None, log |-> <<"fail">>]

afterPrimaryFailure(cocktailId, fallbackData) ==
  IF fallbackData = None
  THEN [st |-> "search", value |-> None, log |-> <<"fail">>]
  ELSE [st |-> "fulfilled", value |-> fallbackData, log |-> <<"fail">>]

afterSearch(cocktailId, fallbackData, outcome) ==
  IF outcome = "hit"
  THEN Some(Summary(cocktailId))
  ELSE IF fallbackData # None THEN fallbackData ELSE Some(MinimalStructure(cocktailId))

(***************************************************************************)
(* fetchCompleteRecipesBatch: the chunk that starts at index i, whether    *)
(* Promise.allSettled of it has resolved, and the loop over its results.   *)
(***************************************************************************)
chunkIndices(i, n) == i..Min(i + batchSize - 1, n)

isSettled(task) == task.st \in {"fulfilled", "rejected"}

\* variant of allSettled: the chunk is taken as done when any one of its promises settled
allSettled_any(tsk, idx) == \E j \in idx : isSettled(tsk[j])

allSettled(tsk, idx) == \A j \in idx : isSettled(tsk[j])

\* variant of processSettled: a result that is not the detail record is skipped
processSettled_skipFallback(task, originalCocktail, c, t) ==
  IF task.st = "fulfilled" /\ task.value = Some(Detail(originalCocktail.id))
  THEN [entries |-> <<formatCocktailResult(Get(task.value))>>,
        cache |-> setCachedRecipe(c, originalCocktail.id, Get(task.value), t)]
  ELSE [entries |-> <<>>, cache |-> c]

\* one settled result: the formatted entry pushed and the cache after it
processSettled(task, originalCocktail, c, t) ==
  IF task.st = "fulfilled"
  THEN [entries |-> <<formatCocktailResult(Get(task.value))>>,
        cache |-> setCachedRecipe(c, originalCocktail.id, Get(task.value), t)]
  ELSE [entries |-> <<formatFallbackResult(Get(originalCocktail.seed))>>, cache |-> c]

\* variant of chunkEntries: the entries of the promises that settled on their
\* first upstream call come before the entries of those that needed a second one
RECURSIVE chunkEntries_quickFirst(_, _, _, _)
chunkEntries_quickFirst(tsk, cocktails, first, last) ==
  IF last < first THEN <<>>
  ELSE LET entry == processSettled(tsk[last], cocktails[last], <<>>, 0).entries
           earlier == chunkEntries_quickFirst(tsk, cocktails, first, last - 1)
       IN IF tsk[last].log = <<"ok">> THEN entry \o earlier ELSE earlier \o entry

\* the loop over the settled results of the chunk first..last: the entries pushed
RECURSIVE chunkEntries(_, _, _, _)
chunkEntries(tsk, cocktails, first, last) ==
  IF last < first THEN <<>>
  ELSE chunkEntries(tsk, cocktails, first, last - 1)
         \o processSettled(tsk[last], cocktails[last], <<>>, 0).entries

\* the loop over the settled results of the chunk first..last: the cache after it
\* (the cache left by the earlier results is bound to a value before the next set)
RECURSIVE chunkCache(_, _, _, _, _, _)
chunkCache(tsk, cocktails, first, last, c, t) ==
  IF last < first THEN c
  ELSE CHOOSE after \in
         {processSettled(tsk[last], cocktails[last], before, t).cache :
            before \in {chunkCache(tsk, cocktails, first, last - 1, c, t)}} : TRUE

(***************************************************************************)
(* findCocktailByName: up to three searches, one after the other (the name *)
(* as query, its first word as query when it has several words, the name   *)
(* as ingredient).  Given the step whose search settled and its outcome:   *)
(* the step to issue next, or the result returned to the caller.           *)
(***************************************************************************)
findCocktailByNameNext(name, step, outcome) ==
  IF outcome = "reject" THEN [next |-> 0, result |-> "reject"]
  ELSE IF outcome = "hit" THEN [next |-> 0, result |-> "hit"]
  ELSE IF step = 1 THEN [next |-> IF WordCount(name) > 1 THEN 2 ELSE 3, result |-> ""]
  ELSE IF step = 2 THEN [next |-> 3, result |-> ""]
  ELSE [next |-> 0, result |-> "empty"]

\* the upstream call a step of findCocktailByName issues
lookupCall(name, step) ==
  [op |-> IF step = 3 THEN "searchIngredient" ELSE "searchName", id |-> 0,
   text |-> IF step = 2 THEN "first word" ELSE name]

detailCall(id) == [op |-> "detail", id |-> id, text |-> ""]
searchIdCall(id) == [op |-> "searchId", id |-> id, text |-> ""]

(***************************************************************************)
(* handleSingleRecipeRequest, from formatCocktailResult(recipe) to the     *)
(* end: the response and the cache after the read of the performance line. *)
(***************************************************************************)
finishSingle(recipe, c, t) ==
  LET formattedRecipe == formatCocktailResult(recipe)
      g == getCachedRecipe(c, formattedRecipe.id, t)
  IN [response |-> [kind |-> "SingleRecipe", recipes |-> <<formattedRecipe>>,
                    perf |-> IF g.hit THEN "cached" ELSE "fresh"],
      cache |-> g.cache]

textResponse(kind) == [kind |-> kind, recipes |-> <<>>, perf |-> ""]

(***************************************************************************)
(* State.                                                                  *)
(***************************************************************************)
VARIABLES
  now,                \* Date.now()
  recipeCache,        \* the recipe entries of the cache manager
  pc,                 \* where the handler of the current request is
  args,               \* the arguments of the current request
  cocktailRequests,   \* handleBatchRecipeRequest: the collected requests
  resolvedCocktails,  \* handleBatchRecipeRequest: the resolved references
  reqIdx,             \* the request the resolution loop is at
  lookupStep,         \* the search of findCocktailByName that is in flight (0: none)
  warnings,           \* the console.warn lines of the resolution loop
  cocktails,          \* the cocktails being fetched, each with the seed passed along
  tasks,              \* per cocktail: the state of its getCocktailWithFallback promise,
                      \* its value and the outcomes of the upstream calls it made
  chunkStart,         \* fetchCompleteRecipesBatch: the loop index i
  results,            \* the results array being built
  response,           \* the response of the request
  calls,              \* the upstream calls issued by the current request
  cacheAtStart,       \* the cache when the current request arrived
  hitIds,             \* the ids the first loop of fetchCompleteRecipes found cached
  sim,                \* the client's findSimilarCocktails call: its locals and where it is
  overtaken           \* history: a promise of the current run settled while the promise
                      \* of an earlier cocktail of its chunk was still in flight

vars == <<now, recipeCache, pc, args, cocktailRequests, resolvedCocktails, reqIdx,
          lookupStep, warnings, cocktails, tasks, chunkStart, results, response,
          calls, cacheAtStart, hitIds, sim, overtaken>>

reqVars == <<cocktailRequests, resolvedCocktails, reqIdx, lookupStep, warnings>>
fetchVars == <<cocktails, tasks, chunkStart, results, hitIds>>

\* no findSimilarCocktails call is running
simIdle == [phase |-> "idle"]

\* the server after construction, no request arrived yet
serverIdle ==
  /\ now = 0
  /\ recipeCache = <<>>
  /\ pc = "idle"
  /\ args = NoArgs
  /\ cocktailRequests = <<>>
  /\ resolvedCocktails = <<>>
  /\ reqIdx = 0
  /\ lookupStep = 0
  /\ warnings = <<>>
  /\ cocktails = <<>>
  /\ tasks = <<>>
  /\ chunkStart = 0
  /\ results = <<>>
  /\ response = textResponse("none")
  /\ calls = {}
  /\ cacheAtStart = <<>>
  /\ hitIds = {}
  /\ overtaken = FALSE

Init == serverIdle /\ sim = simIdle

\* variant of issueChunk: the last cocktail of the chunk gets no promise
issueChunk_offByOne(tsk, i, n) ==
  [j \in 1..n |-> IF j \in chunkIndices(i, n) \ {Min(i + batchSize - 1, n)}
                  THEN [st |-> "primary", value |-> None, log |-> <<>>]
                  ELSE tsk[j]]

\* the promises of the chunk starting at i are created: their detail fetches are issued
issueChunk(tsk, i, n) ==
  [j \in 1..n |-> IF j \in chunkIndices(i, n) THEN [st |-> "primary", value |-> None, log |-> <<>>]
                  ELSE tsk[j]]

pendingTasks(n) == [j \in 1..n |-> [st |-> "pending", value |-> None, log |-> <<>>]]

inFlight == {j \in 1..Len(tasks) : tasks[j].st \in {"primary", "search"}}

\* promise j of the chunk starting at i settles before the promise of an earlier
\* cocktail of the chunk
overtakes(tsk, i, j) == \E e \in i..(j - 1) : ~isSettled(tsk[e])

Arrive(a) ==
  /\ pc = "idle"
  /\ a \in ArgsSet
  /\ args' = a
  /\ cacheAtStart' = recipeCache

(***************************************************************************)
(* handleGetRecipe -> handleSingleRecipeRequest                            *)
(***************************************************************************)
\* neither cocktail_id nor cocktail_name: "Missing Information"
SingleMissingInformation(a) ==
  /\ Arrive(a)
  /\ route(a) = "MissingInformation"
  /\ response' = textResponse("MissingInformation")
  /\ calls' = {}
  /\ pc' = "done"
  /\ UNCHANGED <<sim, overtaken, now, recipeCache, reqVars, fetchVars>>

\* cocktail_id, cached: the cached recipe is formatted and returned
SingleByIdCached(a) ==
  /\ Arrive(a)
  /\ route(a) = "byId"
  /\ LET g == getCachedRecipe(recipeCache, a.cocktail_id, now)
     IN /\ g.hit
        /\ LET f == finishSingle(Get(g.value), g.cache, now)
           IN /\ response' = f.response
              /\ recipeCache' = f.cache
  /\ calls' = {}
  /\ pc' = "done"
  /\ UNCHANGED <<sim, overtaken, now, reqVars, fetchVars>>

\* cocktail_id, not cached: getCocktailWithFallback(args.cocktail_id) without seed
SingleByIdFetch(a) ==
  /\ Arrive(a)
  /\ route(a) = "byId"
  /\ LET g == getCachedRecipe(recipeCache, a.cocktail_id, now)
     IN /\ ~g.hit
        /\ recipeCache' = g.cache
  /\ cocktails' = <<[id |-> a.cocktail_id, seed |-> None]>>
  /\ tasks' = issueChunk(pendingTasks(1), 1, 1)
  /\ chunkStart' = 1
  /\ calls' = {detailCall(a.cocktail_id)}
  /\ pc' = "fetch"
  /\ UNCHANGED <<sim, overtaken, now, reqVars, results, hitIds, response>>

\* cocktail_name: findCocktailByName issues its first search
SingleByName(a) ==
  /\ Arrive(a)
  /\ route(a) = "byName"
  /\ lookupStep' = 1
  /\ calls' = {lookupCall(a.cocktail_name, 1)}
  /\ pc' = "lookup"
  /\ UNCHANGED <<sim, overtaken, now, recipeCache, cocktailRequests, resolvedCocktails, reqIdx,
                 warnings, fetchVars, response>>

\* a search of findCocktailByName settles (single request)
SingleLookupSettle(outcome, hitId) ==
  /\ pc = "lookup" /\ ~isBatchRequest(args)
  /\ LET nx == findCocktailByNameNext(args.cocktail_name, lookupStep, outcome)
     IN IF nx.next # 0
        THEN /\ lookupStep' = nx.next
             /\ calls' = calls \cup {lookupCall(args.cocktail_name, nx.next)}
             /\ UNCHANGED <<recipeCache, pc, response, cocktails, tasks, chunkStart>>
        ELSE /\ lookupStep' = 0
             /\ IF nx.result = "reject"
                THEN /\ response' = textResponse("ErrorGettingRecipe")
                     /\ pc' = "done"
                     /\ UNCHANGED <<recipeCache, calls, cocktails, tasks, chunkStart>>
                ELSE IF nx.result = "empty"
                THEN /\ response' = textResponse("RecipeNotFound")
                     /\ pc' = "done"
                     /\ UNCHANGED <<recipeCache, calls, cocktails, tasks, chunkStart>>
                ELSE LET cocktail == Summary(hitId)
                         g == getCachedRecipe(recipeCache, cocktail.id, now)
                     IN IF g.hit
                        THEN LET f == finishSingle(Get(g.value), g.cache, now)
                             IN /\ response' = f.response
                                /\ recipeCache' = f.cache
                                /\ pc' = "done"
                                /\ UNCHANGED <<calls, cocktails, tasks, chunkStart>>
                        ELSE /\ recipeCache' = g.cache
                             /\ cocktails' = <<[id |-> cocktail.id, seed |-> Some(cocktail)]>>
                             /\ tasks' = issueChunk(pendingTasks(1), 1, 1)
                             /\ chunkStart' = 1
                             /\ calls' = calls \cup {detailCall(cocktail.id)}
                             /\ pc' = "fetch"
                             /\ UNCHANGED response
  /\ UNCHANGED <<sim, overtaken, now, args, cocktailRequests, resolvedCocktails, reqIdx, warnings,
                 results, cacheAtStart, hitIds>>


(***************************************************************************)
(* handleGetRecipe -> handleBatchRecipeRequest                             *)
(***************************************************************************)
\* no request collected: "No Cocktails Specified"
BatchNoneSpecified(a) ==
  /\ Arrive(a)
  /\ route(a) = "NoCocktailsSpecified"
  /\ response' = textResponse("NoCocktailsSpecified")
  /\ calls' = {}
  /\ pc' = "done"
  /\ UNCHANGED <<sim, overtaken, now, recipeCache, reqVars, fetchVars>>

\* the requests are collected and the resolution loop starts
BatchStart(a) ==
  /\ Arrive(a)
  /\ route(a) = "batch"
  /\ cocktailRequests' = collectRequests(a, effectiveLimit(a))
  /\ resolvedCocktails' = <<>>
  /\ reqIdx' = 1
  /\ warnings' = <<>>
  /\ calls' = {}
  /\ pc' = "resolve"
  /\ UNCHANGED <<sim, overtaken, now, recipeCache, lookupStep, fetchVars, response>>

\* resolution loop, a request with an id
BatchResolveId ==
  /\ pc = "resolve" /\ reqIdx <= Len(cocktailRequests)
  /\ cocktailRequests[reqIdx].id # 0
  /\ resolvedCocktails' = Append(resolvedCocktails,
       [id |-> cocktailRequests[reqIdx].id, originalRequest |-> reqIdx])
  /\ reqIdx' = reqIdx + 1
  /\ UNCHANGED <<sim, overtaken, now, recipeCache, pc, args, cocktailRequests, lookupStep, warnings,
                 fetchVars, response, calls, cacheAtStart>>

\* resolution loop, a request with a name: findCocktailByName issues its first search
BatchResolveName ==
  /\ pc = "resolve" /\ reqIdx <= Len(cocktailRequests)
  /\ cocktailRequests[reqIdx].id = 0 /\ cocktailRequests[reqIdx].name # ""
  /\ lookupStep' = 1
  /\ calls' = calls \cup {lookupCall(cocktailRequests[reqIdx].name, 1)}
  /\ pc' = "lookup"
  /\ UNCHANGED <<sim, overtaken, now, recipeCache, args, cocktailRequests, resolvedCocktails, reqIdx,
                 warnings, fetchVars, response, cacheAtStart>>

\* variant of resolveOutcome: a rejected lookup is not caught
resolveOutcome_uncaught(resolved, warned, idx, name, result, hitId) ==
  IF result = "hit"
  THEN [resolved |-> Append(resolved, [id |-> Summary(hitId).id, originalRequest |-> idx]),
        warnings |-> warned, thrown |-> FALSE]
  ELSE IF result = "empty"
  THEN [resolved |-> resolved,
        warnings |-> Append(warned, [name |-> name, idx |-> idx, why |-> "not found"]),
        thrown |-> FALSE]
  ELSE [resolved |-> resolved, warnings |-> warned, thrown |-> TRUE]

\* what the loop body does with the result of findCocktailByName
resolveOutcome(resolved, warned, idx, name, result, hitId) ==
  IF result = "hit"
  THEN [resolved |-> Append(resolved, [id |-> Summary(hitId).id, originalRequest |-> idx]),
        warnings |-> warned, thrown |-> FALSE]
  ELSE IF result = "empty"
  THEN [resolved |-> resolved,
        warnings |-> Append(warned, [name |-> name, idx |-> idx, why |-> "not found"]),
        thrown |-> FALSE]
  ELSE [resolved |-> resolved,
        warnings |-> Append(warned, [name |-> name, idx |-> idx, why |-> "error"]),
        thrown |-> FALSE]

\* a search of findCocktailByName settles (batch request)
BatchLookupSettle(outcome, hitId) ==
  /\ pc = "lookup" /\ isBatchRequest(args)
  /\ LET name == cocktailRequests[reqIdx].name
         nx == findCocktailByNameNext(name, lookupStep, outcome)
     IN IF nx.next # 0
        THEN /\ lookupStep' = nx.next
             /\ calls' = calls \cup {lookupCall(name, nx.next)}
             /\ UNCHANGED <<pc, resolvedCocktails, reqIdx, warnings, response>>
        ELSE LET r == resolveOutcome(resolvedCocktails, warnings, reqIdx, name,
                                     nx.result, hitId)
             IN /\ lookupStep' = 0
                /\ resolvedCocktails' = r.resolved
                /\ warnings' = r.warnings
                /\ IF r.thrown
                   THEN /\ response' = textResponse("RecipeError")
                        /\ pc' = "done"
                        /\ UNCHANGED reqIdx
                   ELSE /\ reqIdx' = reqIdx + 1
                        /\ pc' = "resolve"
                        /\ UNCHANGED response
                /\ UNCHANGED calls
  /\ UNCHANGED <<sim, overtaken, now, recipeCache, args, cocktailRequests, fetchVars, cacheAtStart>>

\* the loop is over and nothing resolved: "No Cocktails Found"
BatchNoneFound ==
  /\ pc = "resolve" /\ reqIdx > Len(cocktailRequests)
  /\ resolvedCocktails = <<>>
  /\ response' = textResponse("NoCocktailsFound")
  /\ pc' = "done"
  /\ UNCHANGED <<sim, overtaken, now, recipeCache, args, reqVars, fetchVars, calls, cacheAtStart>>

\* the cocktails handed to fetchCompleteRecipes; each is its own fallback data
mockCocktails(resolved) ==
  [k \in 1..Len(resolved) |->
     [id |-> resolved[k].id, seed |-> Some(MockCocktail(resolved[k].id))]]

\* the loop is over: fetchCompleteRecipes consults the cache; everything was cached
BatchAllCached ==
  /\ pc = "resolve" /\ reqIdx > Len(cocktailRequests)
  /\ resolvedCocktails # <<>>
  /\ LET cc == consultCache(mockCocktails(resolvedCocktails), recipeCache, now)
     IN /\ cc.uncached = <<>>
        /\ recipeCache' = cc.cache
        /\ results' = cc.results
        /\ hitIds' = cc.hits
        /\ response' = [kind |-> "BatchResults", recipes |-> cc.results, perf |-> ""]
  /\ pc' = "done"
  /\ UNCHANGED <<sim, overtaken, now, args, reqVars, cocktails, tasks, chunkStart, calls, cacheAtStart>>

\* the loop is over: fetchCompleteRecipes consults the cache and
\* fetchCompleteRecipesBatch issues the first chunk of the uncached cocktails
BatchFetchStart ==
  /\ pc = "resolve" /\ reqIdx > Len(cocktailRequests)
  /\ resolvedCocktails # <<>>
  /\ LET cc == consultCache(mockCocktails(resolvedCocktails), recipeCache, now)
         n == Len(cc.uncached)
     IN /\ cc.uncached # <<>>
        /\ recipeCache' = cc.cache
        /\ results' = cc.results
        /\ hitIds' = cc.hits
        /\ cocktails' = cc.uncached
        /\ chunkStart' = 1
        /\ tasks' = issueChunk(pendingTasks(n), 1, n)
        /\ calls' = calls \cup {detailCall(cc.uncached[j].id) : j \in chunkIndices(1, n)}
  /\ pc' = "fetch"
  /\ overtaken' = FALSE
  /\ UNCHANGED <<sim, now, args, reqVars, response, cacheAtStart>>


(***************************************************************************)
(* getCocktailWithFallback: the upstream calls of one promise settle.      *)
(***************************************************************************)
\* the primary detail fetch of cocktail j settles
PrimarySettle(j, ok) ==
  /\ pc = "fetch"
  /\ j \in 1..Len(tasks) /\ tasks[j].st = "primary"
  /\ LET after == IF ok THEN [st |-> "fulfilled", value |-> Some(Detail(cocktails[j].id)),
                                  log |-> <<"ok">>]
                  ELSE afterPrimaryFailure(cocktails[j].id, cocktails[j].seed)
     IN /\ tasks' = [tasks EXCEPT ![j] = after]
        /\ calls' = IF after.st = "search" THEN calls \cup {searchIdCall(cocktails[j].id)}
                    ELSE calls
        /\ overtaken' = (overtaken \/ (isSettled(after) /\ overtakes(tasks, chunkStart, j)))
  /\ UNCHANGED <<sim, now, recipeCache, pc, args, reqVars, cocktails, chunkStart, results,
                 hitIds, response, cacheAtStart>>

\* the secondary search of cocktail j settles
SearchSettle(j, outcome) ==
  /\ pc = "fetch"
  /\ j \in 1..Len(tasks) /\ tasks[j].st = "search"
  /\ tasks' = [tasks EXCEPT ![j] =
       [st |-> "fulfilled",
        value |-> afterSearch(cocktails[j].id, cocktails[j].seed, outcome),
        log |-> Append(tasks[j].log, outcome)]]
  /\ overtaken' = (overtaken \/ overtakes(tasks, chunkStart, j))
  /\ UNCHANGED <<sim, now, recipeCache, pc, args, reqVars, cocktails, chunkStart, results,
                 hitIds, response, calls, cacheAtStart>>

(***************************************************************************)
(* fetchCompleteRecipesBatch: Promise.allSettled of the current chunk      *)
(* resolves; its results are formatted, pushed and cached, and either the  *)
(* next chunk is issued or handleBatchRecipeRequest builds its response.   *)
(***************************************************************************)
ChunkSettled ==
  /\ pc = "fetch" /\ isBatchRequest(args)
  /\ LET n == Len(cocktails)
         idx == chunkIndices(chunkStart, n)
         last == Min(chunkStart + batchSize - 1, n)
         entries == chunkEntries(tasks, cocktails, chunkStart, last)
         nextStart == chunkStart + batchSize
     IN /\ allSettled(tasks, idx)
        /\ results' = results \o entries
        /\ recipeCache' = chunkCache(tasks, cocktails, chunkStart, last, recipeCache, now)
        /\ IF nextStart <= n
           THEN /\ chunkStart' = nextStart
                /\ tasks' = issueChunk(tasks, nextStart, n)
                /\ calls' = calls \cup {detailCall(cocktails[j].id) :
                                          j \in chunkIndices(nextStart, n)}
                /\ UNCHANGED <<pc, response>>
           ELSE /\ response' = [kind |-> "BatchResults",
                                recipes |-> results \o entries, perf |-> ""]
                /\ pc' = "done"
                /\ UNCHANGED <<chunkStart, tasks, calls>>
  /\ UNCHANGED <<sim, overtaken, now, args, reqVars, cocktails, hitIds, cacheAtStart>>

\* handleSingleRecipeRequest: the awaited getCocktailWithFallback returns;
\* the recipe is cached under the requested id, formatted and returned
SingleSettled ==
  /\ pc = "fetch" /\ ~isBatchRequest(args)
  /\ isSettled(tasks[1])
  /\ LET recipe == Get(tasks[1].value)
         c1 == setCachedRecipe(recipeCache, cocktails[1].id, recipe, now)
         f == finishSingle(recipe, c1, now)
     IN /\ response' = f.response
        /\ recipeCache' = f.cache
        /\ results' = f.response.recipes
  /\ pc' = "done"
  /\ UNCHANGED <<sim, overtaken, now, args, reqVars, cocktails, tasks, chunkStart, hitIds, calls,
                 cacheAtStart>>

\* the response is returned; the server waits for the next request
Return ==
  /\ pc = "done"
  /\ pc' = "idle"
  /\ args' = NoArgs
  /\ cocktailRequests' = <<>>
  /\ resolvedCocktails' = <<>>
  /\ reqIdx' = 0
  /\ lookupStep' = 0
  /\ warnings' = <<>>
  /\ cocktails' = <<>>
  /\ tasks' = <<>>
  /\ chunkStart' = 0
  /\ results' = <<>>
  /\ response' = textResponse("none")
  /\ calls' = {}
  /\ cacheAtStart' = <<>>
  /\ hitIds' = {}
  /\ overtaken' = FALSE
  /\ UNCHANGED <<sim, now, recipeCache>>

\* time passes
Tick ==
  /\ now < MaxTicks * TickMs
  /\ now' = now + TickMs
  /\ UNCHANGED <<sim, overtaken, recipeCache, pc, args, reqVars, fetchVars, response, calls,
                 cacheAtStart>>

Next ==
  \/ \E a \in ArgsSet : SingleMissingInformation(a)
  \/ \E a \in ArgsSet : SingleByIdCached(a)
  \/ \E a \in ArgsSet : SingleByIdFetch(a)
  \/ \E a \in ArgsSet : SingleByName(a)
  \/ \E o \in SearchOutcomes, k \in Ids : SingleLookupSettle(o, k)
  \/ \E a \in ArgsSet : BatchNoneSpecified(a)
  \/ \E a \in ArgsSet : BatchStart(a)
  \/ BatchResolveId
  \/ BatchResolveName
  \/ \E o \in SearchOutcomes, k \in Ids : BatchLookupSettle(o, k)
  \/ BatchNoneFound
  \/ BatchAllCached
  \/ BatchFetchStart
  \/ \E j \in 1..(maxLimit + 1), ok \in BOOLEAN : PrimarySettle(j, ok)
  \/ \E j \in 1..(maxLimit + 1), o \in SearchOutcomes : SearchSettle(j, o)
  \/ ChunkSettled
  \/ SingleSettled
  \/ Return
  \/ Tick

Spec == Init /\ [][Next]_vars


\* every upstream call eventually settles and the continuation of a settled
\* chunk eventually runs
FairSpec ==
  /\ Spec
  /\ WF_vars(\E j \in 1..(maxLimit + 1), ok \in BOOLEAN : PrimarySettle(j, ok))
  /\ WF_vars(\E j \in 1..(maxLimit + 1), o \in SearchOutcomes : SearchSettle(j, o))
  /\ WF_vars(ChunkSettled)

(***************************************************************************)
(* Properties.                                                             *)
(***************************************************************************)
CountId(seq, id) == Cardinality({k \in 1..Len(seq) : seq[k].id = id})

BatchDone == pc = "done" /\ response.kind = "BatchResults"

\* C1: only the result of a successful primary detail fetch is ever in the
\* recipe cache; a seed, a search hit or the placeholder record is never
\* cached under its id.
C1_FallbackNeverCached ==
  \A i \in 1..Len(recipeCache) : recipeCache[i].value = Detail(recipeCache[i].key)

\* C2: a batch request by ids [1, 2], nothing cached, where the detail fetch
\* of 1 succeeds and the detail fetch of 2 fails: 2 entries, the entry of 2 is
\* the "Unknown Cocktail" with the placeholder ingredient and instruction
\* texts, the entry of 1 is fully populated and 1 is in the cache afterwards.
C2_Scenario ==
  /\ pc = "done"
  /\ args = [NoArgs EXCEPT !.cocktail_ids = Some(<<1, 2>>)]
  /\ Len(cocktails) = 2
  /\ tasks[1].log = <<"ok">>
  /\ tasks[2].log = <<"fail">>

C2_UnknownCocktailPlaceholder ==
  C2_Scenario =>
    /\ Len(response.recipes) = 2
    /\ response.recipes[1] = formatCocktailResult(Detail(1))
    /\ response.recipes[2].id = 2
    /\ response.recipes[2].name = Some("Unknown Cocktail")
    /\ response.recipes[2].ingredients = PlaceholderIngredients
    /\ response.recipes[2].instructions = PlaceholderInstructions
    /\ 1 \in LiveKeys(recipeCache, now)
    /\ recipeCache[CacheIndex(recipeCache, 1)].value = Detail(1)

\* C3: every entry a batch fetch returns has a non-empty ingredients list and
\* a non-empty instructions list.
C3_NoEmptyLists ==
  BatchDone =>
    \A k \in 1..Len(response.recipes) :
      /\ Len(response.recipes[k].ingredients) > 0
      /\ Len(response.recipes[k].instructions) > 0

\* C4: a batch fetch of N resolved references returns exactly N entries, one
\* per reference, whatever was cached and whichever fetches failed.
C4_BatchCompleteness ==
  BatchDone =>
    /\ Len(response.recipes) = Len(resolvedCocktails)
    /\ \A id \in Ids : CountId(response.recipes, id) = CountId(resolvedCocktails, id)

\* a run that mixed a cache hit, a successful fetch and a failed fetch
C4_Witness ==
  /\ BatchDone
  /\ hitIds # {}
  /\ \E j \in 1..Len(tasks) : tasks[j].log = <<"ok">>
  /\ \E j \in 1..Len(tasks) : tasks[j].log = <<"fail">>

\* C5: at most batchSize fetches of a run are in flight, all of them in the
\* current chunk; every cocktail of an earlier chunk has settled and no
\* cocktail of a later chunk has been issued.
C5_ChunkedConcurrency ==
  (pc = "fetch" /\ isBatchRequest(args)) =>
    /\ Cardinality(inFlight) <= batchSize
    /\ \A j \in inFlight : j \in chunkIndices(chunkStart, Len(cocktails))
    /\ \A j \in 1..Len(tasks) :
         /\ j < chunkStart => isSettled(tasks[j])
         /\ j >= chunkStart + batchSize => tasks[j].st = "pending"

\* the second chunk is in flight
C5_Witness ==
  /\ pc = "fetch" /\ isBatchRequest(args)
  /\ chunkStart > batchSize
  /\ inFlight # {}

\* C6: a batch fetch run that has started eventually completes, with every
\* cocktail settled and one entry per resolved reference in the response.
C6_Complete ==
  /\ BatchDone
  /\ \A j \in 1..Len(tasks) : isSettled(tasks[j])
  /\ Len(response.recipes) = Len(resolvedCocktails)

C6_RunCompletes == (pc = "fetch" /\ isBatchRequest(args)) ~> C6_Complete

\* a run of two chunks has completed
C6_Witness == C6_Complete /\ chunkStart > batchSize


\* C7: when fetchCompleteRecipes consults the cache no detail fetch or id
\* search of the request has been issued; the ids that are live in the cache
\* at that moment are exactly its hits, none of them is among the cocktails
\* handed to the chunks, and no detail fetch or id search is ever issued for
\* one of them.
isFetchCall(c) == c.op \in {"detail", "searchId"}

C7_Step ==
  /\ (pc = "resolve" /\ pc' \in {"fetch", "done"} /\ resolvedCocktails # <<>>) =>
       LET live == LiveKeys(recipeCache, now)
           ids == {resolvedCocktails[k].id : k \in 1..Len(resolvedCocktails)}
       IN /\ \A c \in calls : ~isFetchCall(c)
          /\ hitIds' = live \cap ids
          /\ \A k \in 1..Len(cocktails') : cocktails'[k].id \notin live
  /\ isBatchRequest(args') =>
       /\ \A c \in calls' : isFetchCall(c) => c.id \notin hitIds'
       /\ \A k \in 1..Len(cocktails') : cocktails'[k].id \notin hitIds'

C7_CacheFirst == [][C7_Step]_vars

\* a run with a cache hit and a fetch in flight
C7_Witness ==
  /\ pc = "fetch" /\ isBatchRequest(args)
  /\ hitIds # {}
  /\ inFlight # {}

\* C8: the ladder of getCocktailWithFallback.  The detail fetch comes first;
\* the id search is issued only after it failed and only without fallback
\* data, at most once; the value is the detail record, else the first hit of
\* the search, else the fallback data, else the "Unknown Cocktail" record
\* with empty ingredients and instructions.  The promise never rejects.
C8_TaskOk(j) ==
  LET task == tasks[j]
      id == cocktails[j].id
      seed == cocktails[j].seed
  IN /\ task.st # "rejected"
     /\ task.st = "pending" => task.log = <<>>
     /\ task.st = "primary" => task.log = <<>> /\ detailCall(id) \in calls
     /\ task.st = "search" =>
          /\ task.log = <<"fail">> /\ seed = None
          /\ detailCall(id) \in calls /\ searchIdCall(id) \in calls
     /\ task.st = "fulfilled" =>
          /\ detailCall(id) \in calls
          /\ \/ task.log = <<"ok">> /\ task.value = Some(Detail(id))
             \/ task.log = <<"fail">> /\ seed # None /\ task.value = seed
             \/ /\ task.log = <<"fail", "hit">> /\ seed = None
                /\ task.value = Some(Summary(id))
             \/ /\ task.log \in {<<"fail", "empty">>, <<"fail", "reject">>} /\ seed = None
                /\ Get(task.value).id = id
                /\ Get(task.value).name = Some("Unknown Cocktail")
                /\ Get(task.value).ingredients = Some(<<>>)
                /\ Get(task.value).instructions = Some(<<>>)
     /\ seed # None => searchIdCall(id) \notin calls

C8_FallbackLadder ==
  pc \in {"fetch", "done"} => \A j \in 1..Len(tasks) : C8_TaskOk(j)

\* both upstream calls failed and the minimal record was returned
C8_Witness ==
  \E j \in 1..Len(tasks) :
    /\ tasks[j].st = "fulfilled"
    /\ tasks[j].log = <<"fail", "reject">>
    /\ tasks[j].value = Some(MinimalStructure(cocktails[j].id))

EmptyRequest(a) ==
  /\ a.cocktail_id = 0 /\ a.cocktail_name = ""
  /\ a.cocktail_ids \in {None, Some(<<>>)}
  /\ a.cocktail_names \in {None, Some(<<>>)}

C10_EmptyRejected ==
  (pc # "idle" /\ EmptyRequest(args)) =>
    /\ pc = "done"
    /\ response.kind \in {"MissingInformation", "NoCocktailsSpecified"}
    /\ response.recipes = <<>>
    /\ calls = {}
    /\ recipeCache = cacheAtStart

\* an empty batch request was rejected while the cache held an entry
C10_Witness ==
  /\ pc = "done"
  /\ args.cocktail_ids = Some(<<>>)
  /\ response.kind = "NoCocktailsSpecified"
  /\ recipeCache # <<>>


(***************************************************************************)
(* The limit arithmetic of a batch request on its own: handleGetRecipe     *)
(* computes the limit and handleBatchRecipeRequest collects the requests,  *)
(* for lists as long as MaxRequested and limits of either sign.            *)
(***************************************************************************)
MaxRequested == 22

RequestedLengths == {0, 1, 10, 11, 20, 21, MaxRequested}

LimitValues == {-25, -2, -1, 0, 1, 5, 20, 21, 25}

idList(n) == [k \in 1..n |-> ((k - 1) % 2) + 1]

nameList(n) == [k \in 1..n |-> IF k % 2 = 1 THEN "Negroni" ELSE "Old Fashioned"]

LimitArgs ==
  {[NoArgs EXCEPT !.cocktail_ids = ids, !.cocktail_names = names, !.limit = l] :
     ids \in {None} \cup {Some(idList(n)) : n \in RequestedLengths},
     names \in {None} \cup {Some(nameList(n)) : n \in RequestedLengths},
     l \in LimitValues}

LimitInit ==
  /\ now = 0
  /\ recipeCache = <<>>
  /\ pc = "limitArrived"
  /\ args \in LimitArgs
  /\ cocktailRequests = <<>>
  /\ resolvedCocktails = <<>>
  /\ reqIdx = 0
  /\ lookupStep = 0
  /\ warnings = <<>>
  /\ cocktails = <<>>
  /\ tasks = <<>>
  /\ chunkStart = 0
  /\ results = <<>>
  /\ response = textResponse("none")
  /\ calls = {}
  /\ cacheAtStart = <<>>
  /\ hitIds = {}
  /\ sim = simIdle
  /\ overtaken = FALSE

\* handleGetRecipe up to the collection of the requests in handleBatchRecipeRequest
CollectRequests ==
  /\ pc = "limitArrived"
  /\ cocktailRequests' = collectRequests(args, effectiveLimit(args))
  /\ pc' = "limitCollected"
  /\ UNCHANGED <<sim, overtaken, now, recipeCache, args, resolvedCocktails, reqIdx, lookupStep,
                 warnings, fetchVars, response, calls, cacheAtStart>>

LimitNext == CollectRequests

LimitSpec == LimitInit /\ [][LimitNext]_vars

\* the ids of the request come before its names
idsBeforeNames(reqs) ==
  \A i, j \in 1..Len(reqs) : (i < j /\ reqs[i].id = 0) => reqs[j].id = 0

\* C11: whatever the limit argument and the two lists are, a batch request
\* collects at most 20 requests (at most 10 when the limit is absent), ids
\* before names.
C11_AtMostTwenty ==
  pc = "limitCollected" =>
    /\ Len(cocktailRequests) <= maxLimit
    /\ (args.limit = 0 => Len(cocktailRequests) <= defaultLimit)
    /\ idsBeforeNames(cocktailRequests)



(***************************************************************************)
(* The similarity score of the client (BarAssistantClient).  A score is an *)
(* exact fraction num / den, so that comparisons with 0, 1 and the         *)
(* threshold are exact.                                                    *)
(***************************************************************************)
MaxIngredients == 2

\* the bonuses of calculateSimilarity, in hundredths
spiritBonusPct == 25
modifierBonusPct == 15
countBonusPct == 10

\* ingredient names as they reach calculateSimilarity
IngredientNames ==
  {"gin", "Gin (London Dry)", "rum", "campari", "campari, chilled", "sweet vermouth", "lime"}

\* String.prototype.toLowerCase for the names of the model
toLowerCase(name) ==
  CASE name = "Gin" -> "gin"
    [] name = "Gin (London Dry)" -> "gin (london dry)"
    [] name = "Campari" -> "campari"
    [] name = "Sweet Vermouth" -> "sweet vermouth"
    [] name = "Bourbon" -> "bourbon"
    [] name = "Rum" -> "rum"
    [] name = "Lime" -> "lime"
    [] name = "Sugar" -> "sugar"
    [] OTHER -> name

\* lowercase, drop what follows a comma, drop a parenthesis, trim
normalizeIngredientName(ingredient) ==
  LET lower == toLowerCase(ingredient)
  IN CASE lower = "gin (london dry)" -> "gin"
       [] lower = "campari, chilled" -> "campari"
       [] OTHER -> lower

\* the normalized name contains one of the spirit words
isBaseSpirit(ingredient) == normalizeIngredientName(ingredient) \in {"gin", "rum", "bourbon"}

\* the normalized name contains one of the modifier words
isKeyModifier(ingredient) ==
  normalizeIngredientName(ingredient) \in {"campari", "sweet vermouth"}

\* variant of sharedWith: every entry of the first list counts as shared
sharedWith_all(list1, list2) ==
  list1

\* Array.prototype.filter(x => list2.some(y => normalize(x) === normalize(y)))
sharedWith(list1, list2) ==
  LET inList2(x) ==
        \E k \in 1..Len(list2) : normalizeIngredientName(x) = normalizeIngredientName(list2[k])
  IN SelectSeq(list1, inList2)

\* sharedModifiers.length * 0.15, in hundredths
modifierBonusOf(ingredients1, ingredients2) ==
  LET modifiers1 == SelectSeq(ingredients1, isKeyModifier)
      modifiers2 == SelectSeq(ingredients2, isKeyModifier)
      sharedModifiers == sharedWith(modifiers1, modifiers2)
  IN Len(sharedModifiers) * modifierBonusPct

\* calculateSimilarity before Math.min: the Jaccard term and the three bonuses
similaritySum(ingredients1, ingredients2) ==
  IF Len(ingredients1) = 0 \/ Len(ingredients2) = 0 THEN [num |-> 0, den |-> 1]
  ELSE
    LET set1 == {normalizeIngredientName(ingredients1[k]) : k \in 1..Len(ingredients1)}
        set2 == {normalizeIngredientName(ingredients2[k]) : k \in 1..Len(ingredients2)}
        intersection == set1 \cap set2
        union == set1 \cup set2
        spirits1 == SelectSeq(ingredients1, isBaseSpirit)
        spirits2 == SelectSeq(ingredients2, isBaseSpirit)
        sharedSpirits == sharedWith(spirits1, spirits2)
        spiritBonus == IF Len(sharedSpirits) > 0 THEN spiritBonusPct ELSE 0
        modifierBonus == modifierBonusOf(ingredients1, ingredients2)
        ingredientCountBonus == IF Cardinality(intersection) >= 2 THEN countBonusPct ELSE 0
        den == 100 * Cardinality(union)
    IN [num |-> 100 * Cardinality(intersection)
                  + (spiritBonus + modifierBonus + ingredientCountBonus) * Cardinality(union),
        den |-> den]

\* variant of calculateSimilarity: the sum is returned without Math.min
calculateSimilarity_noClamp(ingredients1, ingredients2) ==
  similaritySum(ingredients1, ingredients2)

calculateSimilarity(ingredients1, ingredients2) ==
  LET sum == similaritySum(ingredients1, ingredients2)
  IN [num |-> Min(sum.den, sum.num), den |-> sum.den]

\* the lists of at most n names
RECURSIVE ListsUpTo(_, _)
ListsUpTo(S, n) ==
  IF n = 0 THEN {<<>>}
  ELSE LET shorter == ListsUpTo(S, n - 1)
       IN shorter \cup {Append(l, x) : l \in shorter, x \in S}

IngredientLists == ListsUpTo(IngredientNames, MaxIngredients)

\* a pair of ingredient lists is given
ScoreInit ==
  /\ serverIdle
  /\ sim \in {[phase |-> "pair", a |-> a, b |-> b] : a, b \in IngredientLists}

\* calculateSimilarity is applied to the pair, in both directions
Score ==
  /\ sim.phase = "pair"
  /\ sim' = [phase |-> "scored", a |-> sim.a, b |-> sim.b,
             ab |-> calculateSimilarity(sim.a, sim.b),
             ba |-> calculateSimilarity(sim.b, sim.a)]
  /\ UNCHANGED <<overtaken, now, recipeCache, pc, args, reqVars, fetchVars, response, calls,
                 cacheAtStart>>

ScoreNext == Score

ScoreSpec == ScoreInit /\ [][ScoreNext]_vars

inUnitInterval(score) == 0 <= score.num /\ score.num <= score.den /\ score.den > 0

hasDuplicate(list) ==
  \E i, j \in 1..Len(list) :
    i < j /\ normalizeIngredientName(list[i]) = normalizeIngredientName(list[j])

\* C12: for every pair of ingredient lists, lists with duplicate names and
\* with several shared key modifiers included, the score of calculateSimilarity
\* lies between 0 and 1.
C12_ScoreInUnitInterval ==
  sim.phase = "scored" => inUnitInterval(sim.ab) /\ inUnitInterval(sim.ba)

\* a scored pair with a duplicate name and two shared modifier entries whose
\* sum of terms exceeds 1
C12_Witness ==
  /\ sim.phase = "scored"
  /\ hasDuplicate(sim.a)
  /\ Len(sharedWith(SelectSeq(sim.a, isKeyModifier), SelectSeq(sim.b, isKeyModifier))) >= 2
  /\ similaritySum(sim.a, sim.b).num > similaritySum(sim.a, sim.b).den
  /\ sim.ab.num = sim.ab.den

\* C14: the score does not depend on the direction: sim(A,B) = sim(B,A) for
\* all ingredient lists A and B.
C14_Symmetric ==
  sim.phase = "scored" => sim.ab.num * sim.ba.den = sim.ba.num * sim.ab.den



(***************************************************************************)
(* findSimilarCocktails of the client: the reference fetch, the searches   *)
(* that build the candidate pool (a Map, modelled by the sequence of its   *)
(* keys in insertion order), the hydration of the candidates in batches,   *)
(* scoring, sorting, filtering and truncation.  Every await is a step; the *)
(* detail fetches of one batch settle in any order.  The ids in `down' are *)
(* the cocktails whose detail fetch rejects during the call.               *)
(***************************************************************************)
ExtraCandidates == 2

maxCandidates == 50
hydrateBatchSize == 10
topIngredients == 3
poolFactor == 3
thresholdPct == 15

SimRefs == {1, 3}

SimLimits == {1, 2}

DownSets(cocktailId) == {{}, {cocktailId}, {2, 5, 45}}

\* an entry of ingredients / short_ingredients
Ing(name) == [name |-> name]

\* what GET /cocktails/{id} returns for the cocktails of the catalog
upstreamRecipe(id) ==
  LET negroni == <<Ing("Gin"), Ing("Campari"), Ing("Sweet Vermouth")>>
      boulevardier == <<Ing("Bourbon"), Ing("Campari"), Ing("Sweet Vermouth")>>
      daiquiri == <<Ing("Rum"), Ing("Lime"), Ing("Sugar")>>
      ginAndLime == <<Ing("Gin (London Dry)"), Ing("Lime")>>
  IN CASE id = 1 -> [id |-> id, short_ingredients |-> Some(negroni), ingredients |-> None]
       [] id = 2 -> [id |-> id, short_ingredients |-> None, ingredients |-> Some(boulevardier)]
       [] id = 3 -> [id |-> id, short_ingredients |-> Some(daiquiri), ingredients |-> None]
       [] id = 4 -> [id |-> id, short_ingredients |-> Some(ginAndLime), ingredients |-> None]
       [] id = 5 -> [id |-> id, ingredients |-> None,
                     short_ingredients |-> Some(negroni \o <<Ing("Bourbon"), Ing("Lime")>>)]
       [] id = 6 -> [id |-> id, short_ingredients |-> Some(<<Ing("")>>), ingredients |-> None]
       [] id = 7 -> [id |-> id, short_ingredients |-> Some(<<>>), ingredients |-> Some(negroni)]
       [] id = 8 -> [id |-> id, short_ingredients |-> None, ingredients |-> None]
       [] OTHER -> [id |-> id, ingredients |-> None,
                    short_ingredients |->
                      Some(IF id % 3 = 0 THEN boulevardier
                           ELSE IF id % 3 = 1 THEN daiquiri ELSE ginAndLime)]

\* ing.ingredient?.name || ing.name || 'unknown'
ingredientName(ing) == IF ing.name # "" THEN ing.name ELSE "unknown"

\* (cocktail.short_ingredients || cocktail.ingredients)?.map(lowercased name) || []
extractIngredients(cocktail) ==
  LET list == IF IsSome(cocktail.short_ingredients) THEN cocktail.short_ingredients
              ELSE cocktail.ingredients
  IN IF IsSome(list)
     THEN [k \in 1..Len(Get(list)) |-> toLowerCase(ingredientName(Get(list)[k]))]
     ELSE <<>>

Ascending(a, b) == [k \in 1..(b - a + 1) |-> a + k - 1]

Descending(a, b) == [k \in 1..(a - b + 1) |-> a - k + 1]

lastCandidate == maxCandidates + ExtraCandidates + 1

\* what the search for the k-th ingredient may answer: None is a rejection
IngredientSearchOutcomes(k) ==
  CASE k = 1 -> {None, Some(<<1, 2, 3, 2>>), Some(Descending(40, 1))}
    [] k = 2 -> {None, Some(<<4, 2, 5, 3, 1>>), Some(Ascending(30, lastCandidate))}
    [] OTHER -> {None, Some(<<5, 6, 7, 8>>)}

\* what the general search may answer
GeneralSearchOutcomes == {None, Some(<<9, 1, 2, 10, 3, 11, 4>>)}

ElementsOf(seq) == {seq[k] : k \in 1..Len(seq)}

\* variant of mergeOne: the test against the reference id is missing
mergeOne_keepSelf(pool, id, cocktailId) ==
  IF id \notin ElementsOf(pool) THEN Append(pool, id) ELSE pool

\* if (cocktail.id !== cocktailId) allPotentialMatches.set(cocktail.id, cocktail)
mergeOne(pool, id, cocktailId) ==
  IF id # cocktailId /\ id \notin ElementsOf(pool) THEN Append(pool, id) ELSE pool

\* results.data.forEach(...)
RECURSIVE mergeResults(_, _, _)
mergeResults(pool, data, cocktailId) ==
  IF data = <<>> THEN pool
  ELSE CHOOSE merged \in {mergeResults(next, Tail(data), cocktailId) :
                            next \in {mergeOne(pool, data[1], cocktailId)}} : TRUE

\* variant of needsGeneralSearch: the general search is issued whatever the pool holds
needsGeneralSearch_always(poolSize, limit) ==
  TRUE

\* allPotentialMatches.size < limit * 3
needsGeneralSearch(poolSize, limit) ==
  poolSize < limit * poolFactor

\* variant of takeCandidates: every id of the pool is a candidate
takeCandidates_uncapped(pool) ==
  pool

\* Array.from(allPotentialMatches.keys()).slice(0, 50)
takeCandidates(pool) ==
  SliceTo(pool, maxCandidates)

batchIndices(i, n) == i..Min(i + hydrateBatchSize - 1, n)

\* batch.map(id => getCocktailRecipe(id).catch(() => null)): the fetches are issued
issueBatch(tsk, i, n) ==
  [j \in 1..n |-> IF j \in batchIndices(i, n) THEN "inflight" ELSE tsk[j]]

\* variant of batchSettled: the loop goes on as soon as one fetch of the batch has settled
batchSettled_any(tsk, i, n) ==
  \E j \in batchIndices(i, n) : tsk[j] \in {"ok", "null"}

\* await Promise.all(detailPromises) returns
batchSettled(tsk, i, n) ==
  \A j \in batchIndices(i, n) : tsk[j] \in {"ok", "null"}

scoreLess(x, y) == x.num * y.den < y.num * x.den

\* variant of passesThreshold: nothing is filtered
passesThreshold_any(score) ==
  TRUE

\* (item.similarity_score || 0) > 0.15
passesThreshold(score) ==
  score.num * 100 > thresholdPct * score.den

\* variant of insertByScore: the element is appended where it stands
insertByScore_append(sorted, x) ==
  Append(sorted, x)

\* one step of the stable sort by (b.similarity_score - a.similarity_score)
insertByScore(sorted, x) ==
  LET p == Cardinality({k \in 1..Len(sorted) :
                          ~scoreLess(sorted[k].similarity_score, x.similarity_score)})
  IN SubSeq(sorted, 1, p) \o <<x>> \o SubSeq(sorted, p + 1, Len(sorted))

RECURSIVE sortByScore(_)
sortByScore(list) ==
  IF list = <<>> THEN <<>>
  ELSE insertByScore(sortByScore(SubSeq(list, 1, Len(list) - 1)), list[Len(list)])

\* Array.from(detailedCocktails.values()).map(...)
scoreCandidates(baseIngredients, detailed) ==
  [k \in 1..Len(detailed) |->
     [id |-> detailed[k],
      similarity_score |->
        calculateSimilarity(baseIngredients, extractIngredients(upstreamRecipe(detailed[k])))]]

scorePasses(item) == passesThreshold(item.similarity_score)

\* scoring, sort, filter and slice(0, limit): the call returns
finish(s) ==
  LET similarCocktails == sortByScore(scoreCandidates(s.baseIngredients, s.detailed))
  IN [s EXCEPT !.phase = "done",
               !.similarCocktails = similarCocktails,
               !.filtered = SliceTo(SelectSeq(similarCocktails, scorePasses), s.limit)]

\* candidateIds are taken and the first batch of detail fetches is issued
startHydration(s) ==
  LET ids == takeCandidates(s.pool)
      n == Len(ids)
  IN IF n = 0 THEN finish([s EXCEPT !.candidateIds = ids])
     ELSE [s EXCEPT !.phase = "hydrate", !.candidateIds = ids, !.i = 1,
                    !.tasks = issueBatch([j \in 1..n |-> "pending"], 1, n)]

issueSearch(s, kind) ==
  Append(s.searches, [kind |-> kind, poolAtIssue |-> Len(s.pool), st |-> "inflight",
                      data |-> <<>>])

\* the loop of Strategy 1 is over: Strategy 2 or the hydration
afterStrategyA(s) ==
  IF needsGeneralSearch(Len(s.pool), s.limit)
  THEN [s EXCEPT !.phase = "strategyB", !.searches = issueSearch(s, "general")]
  ELSE startHydration(s)

\* searchCocktails({ingredient, limit: 50}) is issued for the k-th ingredient
issueIngredientSearch(s, k) ==
  [s EXCEPT !.phase = "strategyA", !.ingIdx = k, !.searches = issueSearch(s, "ingredient")]

\* the search in flight settles: a fulfilled search is merged into the pool
settleSearch(s, o) ==
  [s EXCEPT !.pool = IF IsSome(o) THEN mergeResults(@, Get(o), s.cocktailId) ELSE @,
            !.searches[Len(s.searches)] =
               [@ EXCEPT !.st = IF IsSome(o) THEN "fulfilled" ELSE "rejected",
                         !.data = IF IsSome(o) THEN Get(o) ELSE <<>>]]

simOthers ==
  <<now, recipeCache, pc, args, reqVars, fetchVars, response, calls, cacheAtStart,
    overtaken>>

\* findSimilarCocktails(cocktailId, limit) is called: the reference fetch is issued
FindSimilar(cocktailId, limit, down) ==
  /\ sim.phase = "idle"
  /\ sim' = [phase |-> "reference", cocktailId |-> cocktailId, limit |-> limit,
             down |-> down, baseIngredients |-> <<>>, ingIdx |-> 0, pool |-> <<>>,
             searches |-> <<>>, candidateIds |-> <<>>, i |-> 0, tasks |-> <<>>,
             detailed |-> <<>>, similarCocktails |-> <<>>, filtered |-> <<>>]
  /\ UNCHANGED simOthers

\* variant of referenceRejects: the call goes on without the reference
referenceRejects_never(s) ==
  FALSE

\* await getCocktailRecipe(cocktailId) throws
referenceRejects(s) ==
  s.cocktailId \in s.down

\* getCocktailRecipe(cocktailId) settles: a rejection is rethrown
ReferenceSettle ==
  /\ sim.phase = "reference"
  /\ sim' =
       IF referenceRejects(sim) THEN [sim EXCEPT !.phase = "failed"]
       ELSE LET base == extractIngredients(upstreamRecipe(sim.cocktailId))
                s1 == [sim EXCEPT !.baseIngredients = base]
            IN IF Len(SliceTo(base, topIngredients)) > 0 THEN issueIngredientSearch(s1, 1)
               ELSE afterStrategyA(s1)
  /\ UNCHANGED simOthers

\* the search for one ingredient settles; the loop issues the next one
IngredientSearchSettle ==
  /\ sim.phase = "strategyA"
  /\ \E o \in IngredientSearchOutcomes(sim.ingIdx) :
       LET s1 == settleSearch(sim, o)
       IN sim' = IF sim.ingIdx < Len(SliceTo(sim.baseIngredients, topIngredients))
                 THEN issueIngredientSearch(s1, sim.ingIdx + 1)
                 ELSE afterStrategyA(s1)
  /\ UNCHANGED simOthers

\* the general search settles
GeneralSearchSettle ==
  /\ sim.phase = "strategyB"
  /\ \E o \in GeneralSearchOutcomes : sim' = startHydration(settleSearch(sim, o))
  /\ UNCHANGED simOthers

\* one detail fetch of the hydration settles; a rejection becomes null
HydrateSettle(j) ==
  /\ sim.phase = "hydrate"
  /\ j \in 1..Len(sim.tasks)
  /\ sim.tasks[j] = "inflight"
  /\ sim' = [sim EXCEPT !.tasks[j] = IF sim.candidateIds[j] \in sim.down THEN "null" ELSE "ok"]
  /\ UNCHANGED simOthers

\* Promise.all of the batch returns: the non-null results are stored and the
\* loop issues the next batch or the call goes on to scoring
HydrateBatchDone ==
  /\ sim.phase = "hydrate"
  /\ LET n == Len(sim.candidateIds)
         got == SelectSeq([k \in 1..Cardinality(batchIndices(sim.i, n)) |-> sim.i + k - 1],
                          LAMBDA j : sim.tasks[j] = "ok")
         s1 == [sim EXCEPT !.detailed = @ \o [k \in 1..Len(got) |-> sim.candidateIds[got[k]]]]
     IN /\ batchSettled(sim.tasks, sim.i, n)
        /\ sim' = IF sim.i + hydrateBatchSize <= n
                  THEN [s1 EXCEPT !.i = sim.i + hydrateBatchSize,
                                  !.tasks = issueBatch(sim.tasks, sim.i + hydrateBatchSize, n)]
                  ELSE finish(s1)
  /\ UNCHANGED simOthers

\* the caller has the result (or the error)
SimReturn ==
  /\ sim.phase \in {"done", "failed"}
  /\ sim' = simIdle
  /\ UNCHANGED simOthers

SimNext ==
  \/ \E cocktailId \in SimRefs, limit \in SimLimits :
       \E down \in DownSets(cocktailId) : FindSimilar(cocktailId, limit, down)
  \/ ReferenceSettle
  \/ IngredientSearchSettle
  \/ GeneralSearchSettle
  \/ \E j \in 1..maxCandidates + ExtraCandidates : HydrateSettle(j)
  \/ HydrateBatchDone
  \/ SimReturn

SimSpec == Init /\ [][SimNext]_vars



(***************************************************************************)
(* Properties of findSimilarCocktails.                                     *)
(***************************************************************************)
simRunning == sim.phase \in {"reference", "strategyA", "strategyB", "hydrate", "done"}

normalizedSet(list) == {normalizeIngredientName(list[k]) : k \in 1..Len(list)}

\* the score the call must give the candidate, computed from the catalog
scoreOf(id) == calculateSimilarity(sim.baseIngredients, extractIngredients(upstreamRecipe(id)))

filteredIds == {sim.filtered[k].id : k \in 1..Len(sim.filtered)}

scoreAtLeast(x, y) == ~scoreLess(x, y)

\* the candidates that rank before the candidate id in the sorted list
rankedBefore(id) ==
  {k \in 1..Len(sim.similarCocktails) :
     \E m \in 1..Len(sim.similarCocktails) : k < m /\ sim.similarCocktails[m].id = id}

\* C13: a candidate whose normalized ingredient names are disjoint from the
\* reference's scores exactly 0 and is never in the output; for the reference
\* [Gin, Campari, Sweet Vermouth] the candidate [Rum, Lime, Sugar] scores 0 and
\* is excluded, the candidate [Bourbon, Campari, Sweet Vermouth] scores 0.9 and
\* is in the output (unless limit candidates rank before it).
C13_DisjointScoresZero ==
  sim.phase = "done" =>
    /\ \A k \in 1..Len(sim.similarCocktails) :
         LET item == sim.similarCocktails[k]
         IN normalizedSet(sim.baseIngredients)
              \cap normalizedSet(extractIngredients(upstreamRecipe(item.id))) = {}
            => item.similarity_score.num = 0 /\ item.id \notin filteredIds
    /\ (sim.cocktailId = 1 /\ 3 \in ElementsOf(sim.detailed))
         => \E k \in 1..Len(sim.similarCocktails) :
              /\ sim.similarCocktails[k] = [id |-> 3, similarity_score |-> [num |-> 0, den |-> 600]]
              /\ 3 \notin filteredIds
    /\ (sim.cocktailId = 1 /\ 2 \in ElementsOf(sim.detailed))
         => /\ \E k \in 1..Len(sim.similarCocktails) :
                 /\ sim.similarCocktails[k].id = 2
                 /\ sim.similarCocktails[k].similarity_score.num * 10
                      = 9 * sim.similarCocktails[k].similarity_score.den
            /\ 2 \in filteredIds \/ Cardinality(rankedBefore(2)) >= sim.limit

\* the Negroni call hydrated both the Daiquiri and the Boulevardier
C13_Witness ==
  /\ sim.phase = "done"
  /\ sim.cocktailId = 1
  /\ {2, 3} \subseteq ElementsOf(sim.detailed)
  /\ 2 \in filteredIds
  /\ 3 \notin filteredIds

\* C15: no entry of the output of findSimilarCocktails has a score <= 0.15.
C15_AboveThreshold ==
  sim.phase = "done" =>
    \A k \in 1..Len(sim.filtered) :
      sim.filtered[k].similarity_score.num * 100 > 15 * sim.filtered[k].similarity_score.den

\* a hydrated candidate scored above 0 and at most 0.15, and the output is not empty
C15_Witness ==
  /\ sim.phase = "done"
  /\ \E k \in 1..Len(sim.similarCocktails) :
       LET score == sim.similarCocktails[k].similarity_score
       IN score.num > 0 /\ score.num * 100 <= 15 * score.den
  /\ Len(sim.filtered) > 0

passingIds == {id \in ElementsOf(sim.detailed) : scoreOf(id).num * 100 > 15 * scoreOf(id).den}

\* C16: for a limit of 1 or more the output is sorted by score in non-increasing
\* order, has at most limit entries, and holds the limit highest-scoring
\* hydrated candidates that pass the threshold.
C16_SortedTopLimit ==
  sim.phase = "done" =>
    /\ Len(sim.filtered) <= sim.limit
    /\ Len(sim.filtered) = Min(sim.limit, Cardinality(passingIds))
    /\ \A k, m \in 1..Len(sim.filtered) :
         k < m => /\ scoreAtLeast(sim.filtered[k].similarity_score,
                                  sim.filtered[m].similarity_score)
                  /\ sim.filtered[k].id # sim.filtered[m].id
    /\ \A k \in 1..Len(sim.filtered) :
         /\ sim.filtered[k].id \in passingIds
         /\ sim.filtered[k].similarity_score = scoreOf(sim.filtered[k].id)
         /\ \A id \in passingIds \ filteredIds :
              scoreAtLeast(sim.filtered[k].similarity_score, scoreOf(id))

\* more candidates pass the threshold than the limit allows, and the hydrated
\* candidates were not in score order
C16_Witness ==
  /\ sim.phase = "done"
  /\ sim.limit = 2
  /\ Cardinality(passingIds) > sim.limit
  /\ Len(sim.filtered) = sim.limit
  /\ \E k, m \in 1..Len(sim.detailed) :
       k < m /\ scoreLess(scoreOf(sim.detailed[k]), scoreOf(sim.detailed[m]))

\* C17: the reference id is never in the candidate pool, never hydrated and
\* never in the output, whatever the searches return.
C17_SelfExcluded ==
  simRunning =>
    /\ sim.cocktailId \notin ElementsOf(sim.pool)
    /\ sim.cocktailId \notin ElementsOf(sim.detailed)
    /\ sim.cocktailId \notin filteredIds
    /\ \A j \in 1..Len(sim.tasks) :
         sim.tasks[j] # "pending" => sim.candidateIds[j] # sim.cocktailId

\* a fulfilled search returned the reference itself, and the call has an output
C17_Witness ==
  /\ sim.phase = "done"
  /\ \E k \in 1..Len(sim.searches) :
       sim.searches[k].st = "fulfilled" /\ sim.cocktailId \in ElementsOf(sim.searches[k].data)
  /\ Len(sim.filtered) > 0

ingredientSearches == Min(topIngredients, Len(sim.baseIngredients))

strategiesInOrder ==
  /\ Len(sim.searches) <= ingredientSearches + 1
  /\ \A k \in 1..Len(sim.searches) :
       sim.searches[k].kind = IF k <= ingredientSearches THEN "ingredient" ELSE "general"

generalExactlyWhenUnder ==
  /\ \A k \in 1..Len(sim.searches) :
       sim.searches[k].kind = "general" => sim.searches[k].poolAtIssue < sim.limit * 3
  /\ (sim.phase \in {"hydrate", "done"} /\ Len(sim.searches) <= ingredientSearches)
       => Len(sim.pool) >= sim.limit * 3

\* C18 as stated: the strategies run in order, no search is issued once the
\* pool holds limit*3 candidates, and the broad search is issued exactly when
\* the pool is under limit*3 after Strategy A.
C18_ShortCircuit ==
  simRunning =>
    /\ strategiesInOrder
    /\ generalExactlyWhenUnder
    /\ \A k \in 1..Len(sim.searches) : sim.searches[k].poolAtIssue < sim.limit * 3

\* C18: the strategies run in order; Strategy A issues one search for each of
\* the reference's top 3 ingredients whatever the pool holds; the broad search
\* is issued exactly when the pool is under limit*3 after Strategy A, and no
\* search follows it.
C18_StrategiesInOrder ==
  simRunning =>
    /\ strategiesInOrder
    /\ generalExactlyWhenUnder
    /\ sim.phase \in {"strategyB", "hydrate", "done"}
         => /\ Len(sim.searches) >= ingredientSearches
            /\ \A k \in 1..Len(sim.searches) : sim.searches[k].st # "inflight"
                                                 \/ sim.phase = "strategyB"

\* an ingredient search was issued although the pool already held limit*3 candidates
C18_Witness ==
  /\ sim.phase = "done"
  /\ \E k \in 1..Len(sim.searches) :
       /\ sim.searches[k].kind = "ingredient"
       /\ sim.searches[k].poolAtIssue >= sim.limit * 3

\* every id the fulfilled searches returned, in the order of the answers
RECURSIVE discovered(_)
discovered(searches) ==
  IF searches = <<>> THEN <<>>
  ELSE discovered(SubSeq(searches, 1, Len(searches) - 1)) \o searches[Len(searches)].data

\* the ids of a list other than self, each at its first occurrence
firstOccurrences(list, self) ==
  LET first == {k \in 1..Len(list) :
                  list[k] # self /\ \A m \in 1..(k - 1) : list[m] # list[k]}
  IN [n \in 1..Cardinality(first) |->
        list[CHOOSE k \in first : Cardinality({m \in first : m <= k}) = n]]

\* the first batch has been issued and no detail fetch has settled yet
hydrationIssued == \A j \in 1..Len(sim.tasks) : sim.tasks[j] \in {"inflight", "pending"}

\* C19: at most 50 candidates are hydrated, they are the 50 earliest-discovered
\* distinct ids (an id found again keeps its first position), and a candidate
\* whose detail fetch fails is dropped while the others are kept.
C19_FiftyEarliest ==
  /\ sim.phase \in {"hydrate", "done"} =>
       /\ Len(sim.candidateIds) <= 50
       /\ Cardinality({j \in 1..Len(sim.tasks) : sim.tasks[j] # "pending"}) <= 50
  /\ (sim.phase = "done" \/ (sim.phase = "hydrate" /\ hydrationIssued)) =>
       sim.candidateIds
         = SliceTo(firstOccurrences(discovered(sim.searches), sim.cocktailId), 50)
  /\ sim.phase = "done" =>
       sim.detailed = SelectSeq(sim.candidateIds, LAMBDA id : id \notin sim.down)

\* more than 50 ids were discovered, one of them twice, and the detail fetch
\* of a candidate failed
C19_Witness ==
  /\ sim.phase = "done"
  /\ Len(sim.pool) > 50
  /\ Len(discovered(sim.searches)) > Len(sim.pool) + 1
  /\ ElementsOf(sim.candidateIds) \cap sim.down # {}
  /\ Len(sim.detailed) > 0

fetching(tsk) == {j \in 1..Len(tsk) : tsk[j] = "inflight"}

C21_FailsIffReference ==
  /\ sim.phase = "failed" => (sim.cocktailId \in sim.down /\ sim.searches = <<>>)
  /\ sim.phase \in {"strategyA", "strategyB", "hydrate", "done"} =>
       sim.cocktailId \notin sim.down

\* a search was rejected, a candidate's detail fetch failed, and the call
\* returned the other candidates
C21_Witness ==
  /\ sim.phase = "done"
  /\ \E k \in 1..Len(sim.searches) : sim.searches[k].st = "rejected"
  /\ \E j \in 1..Len(sim.tasks) : sim.tasks[j] = "null"
  /\ Len(sim.filtered) > 0

\* C23 as stated: the modifier bonus is 0.15 times the number of distinct
\* normalized key-modifier names present in both lists; a name listed twice does
\* not raise it.
C23_DistinctModifiers ==
  sim.phase = "scored" =>
    LET keyModifiers(list) == {n \in normalizedSet(list) : isKeyModifier(n)}
    IN modifierBonusOf(sim.a, sim.b)
         = 15 * Cardinality(keyModifiers(sim.a) \cap keyModifiers(sim.b))



(***************************************************************************)
(* getSimilarityReasons of the client, applied to a reference and a        *)
(* candidate of the catalog.  The cocktails of the catalog carry no method *)
(* and no glass, so the two last reasons are never given.                  *)
(***************************************************************************)
ReasonIds == 1..12

\* extractBaseSpirit([name]): the spirit whose pattern matches the name, if any
extractBaseSpirit(name) ==
  CASE name \in {"Gin", "Gin (London Dry)"} -> Some("gin")
    [] name = "Bourbon" -> Some("whiskey")
    [] name = "Rum" -> Some("rum")
    [] OTHER -> None

\* ing.ingredient?.name || ing.name || ''
spiritName(ing) == ing.name

\* list?.filter(ing => extractBaseSpirit([name]) !== null) || []
spiritsOf(list) ==
  IF IsSome(list)
  THEN SelectSeq(Get(list), LAMBDA ing : IsSome(extractBaseSpirit(spiritName(ing))))
  ELSE <<>>

\* list?.map(lowercased name) || []
namesOf(list) ==
  IF IsSome(list)
  THEN [k \in 1..Len(Get(list)) |-> toLowerCase(ingredientName(Get(list)[k]))]
  ELSE <<>>

\* the reasons: the spirit of the first reason, the names of the second one
getSimilarityReasons(cocktail1, cocktail2) ==
  LET spirits1 == spiritsOf(cocktail1.ingredients)
      spirits2 == spiritsOf(cocktail2.short_ingredients)
      spirit1 == extractBaseSpirit(spiritName(spirits1[1]))
      spirit2 == extractBaseSpirit(spiritName(spirits2[1]))
      ingredients1 == namesOf(cocktail1.ingredients)
      ingredients2 == namesOf(cocktail2.short_ingredients)
      common == SelectSeq(ingredients1, LAMBDA ing : ing \in ElementsOf(ingredients2))
  IN [sameSpirit |-> IF Len(spirits1) > 0 /\ Len(spirits2) > 0 /\ spirit1 = spirit2
                     THEN spirit1 ELSE None,
      shared |-> IF Len(common) > 0 THEN Some(SliceTo(common, 3)) ELSE None]

\* a reference and a hydrated candidate are given
ReasonInit ==
  /\ serverIdle
  /\ sim \in {[phase |-> "recipes", cocktail1 |-> upstreamRecipe(i),
               cocktail2 |-> upstreamRecipe(j)] : i, j \in ReasonIds}

\* getSimilarityReasons(baseCocktail, cocktail)
Reasons ==
  /\ sim.phase = "recipes"
  /\ sim' = [phase |-> "reasoned", cocktail1 |-> sim.cocktail1, cocktail2 |-> sim.cocktail2,
             reasons |-> getSimilarityReasons(sim.cocktail1, sim.cocktail2)]
  /\ UNCHANGED simOthers

ReasonNext == Reasons

ReasonSpec == ReasonInit /\ [][ReasonNext]_vars

\* the lowercased ingredient names the two cocktails have in common
sharedNames ==
  ElementsOf(extractIngredients(sim.cocktail1)) \cap ElementsOf(extractIngredients(sim.cocktail2))

\* C22 as stated: whichever of ingredients / short_ingredients each cocktail
\* carries, the reasons hold a shared-ingredients entry exactly when the two
\* share an ingredient name, and the entry lists at most 3 names, all shared.
C22_SharedReasonExact ==
  sim.phase = "reasoned" =>
    /\ IsSome(sim.reasons.shared) <=> sharedNames # {}
    /\ IsSome(sim.reasons.shared) =>
         /\ Len(Get(sim.reasons.shared)) <= 3
         /\ ElementsOf(Get(sim.reasons.shared)) \subseteq sharedNames



(***************************************************************************)
(* The cache on its own: any sequence of set and get on a few keys while   *)
(* time passes, for several ttl and maxSize.  `written' remembers, for the *)
(* keys that were set and not evicted since, the value and the time of the *)
(* last set; `last' remembers the last operation and what it returned.     *)
(***************************************************************************)
MaxCacheTime == 4

CacheKeys == {1, 2, 3}

CacheValues == {"a", "b"}

TtlValues == {1, 2}

MaxSizeValues == {1, 2}

NoOp == [op |-> "none", key |-> 0, at |-> 0, hit |-> FALSE, value |-> None, before |-> <<>>]

KeysOf(c) == {c[i].key : i \in 1..Len(c)}

\* a cache of the given ttl and maxSize is constructed
CacheInit ==
  /\ serverIdle
  /\ sim \in {[phase |-> "cache", ttl |-> ttl, maxSize |-> maxSize,
               written |-> [k \in CacheKeys |-> None], last |-> NoOp] :
                ttl \in TtlValues, maxSize \in MaxSizeValues}

\* set(key, value)
CacheSetOp(k, v) ==
  /\ sim.phase = "cache"
  /\ recipeCache' = CacheSet(recipeCache, k, v, now, sim.ttl, sim.maxSize)
  /\ sim' = [sim EXCEPT
               !.written = [j \in CacheKeys |->
                              IF j = k THEN Some([value |-> v, at |-> now])
                              ELSE IF j \in KeysOf(recipeCache') THEN @[j] ELSE None],
               !.last = [op |-> "set", key |-> k, at |-> now, hit |-> FALSE,
                         value |-> Some(v), before |-> recipeCache]]
  /\ UNCHANGED <<overtaken, now, pc, args, reqVars, fetchVars, response, calls, cacheAtStart>>

\* get(key)
CacheGetOp(k) ==
  /\ sim.phase = "cache"
  /\ LET g == CacheGet(recipeCache, k, now)
     IN /\ recipeCache' = g.cache
        /\ sim' = [sim EXCEPT !.last = [op |-> "get", key |-> k, at |-> now, hit |-> g.hit,
                                        value |-> g.value, before |-> <<>>]]
  /\ UNCHANGED <<overtaken, now, pc, args, reqVars, fetchVars, response, calls, cacheAtStart>>

\* time passes
CacheTick ==
  /\ sim.phase = "cache"
  /\ now < MaxCacheTime
  /\ now' = now + 1
  /\ UNCHANGED <<sim, overtaken, recipeCache, pc, args, reqVars, fetchVars, response, calls,
                 cacheAtStart>>

CacheNext ==
  \/ \E k \in CacheKeys, v \in CacheValues : CacheSetOp(k, v)
  \/ \E k \in CacheKeys : CacheGetOp(k)
  \/ CacheTick

CacheSpec == CacheInit /\ [][CacheNext]_vars

entryOf(c, k) == c[CHOOSE i \in 1..Len(c) : c[i].key = k]

\* C24: a value set at time t is returned by a get strictly before t + ttl and
\* is a miss at or after t + ttl; the read of an expired entry removes it, and a
\* hit leaves the entry's expiry where the set put it.
C24_TtlExact ==
  (sim.phase = "cache" /\ sim.last.op = "get") =>
    LET k == sim.last.key
        w == sim.written[k]
    IN IF IsSome(w)
       THEN /\ sim.last.hit <=> sim.last.at < Get(w).at + sim.ttl
            /\ sim.last.hit =>
                 /\ sim.last.value = Some(Get(w).value)
                 /\ k \in KeysOf(recipeCache)
                 /\ entryOf(recipeCache, k).expiresAt = Get(w).at + sim.ttl
            /\ ~sim.last.hit => k \notin KeysOf(recipeCache)
       ELSE ~sim.last.hit /\ sim.last.value = None

\* a get at the very instant t + ttl missed and removed the entry, after an
\* earlier hit on the same entry
C24_Witness ==
  /\ sim.phase = "cache"
  /\ sim.last.op = "get"
  /\ ~sim.last.hit
  /\ IsSome(sim.written[sim.last.key])
  /\ sim.last.at = Get(sim.written[sim.last.key]).at + sim.ttl
  /\ sim.last.key \notin KeysOf(recipeCache)

\* the entry of a full cache that an insertion must evict
victimOf(c) ==
  CHOOSE i \in 1..Len(c) :
    /\ \A j \in 1..Len(c) : c[i].expiresAt <= c[j].expiresAt
    /\ \A j \in 1..(i - 1) : c[j].expiresAt > c[i].expiresAt

cachedRefs ==
  LET isHit(r) == r.id \in hitIds IN SelectSeq(resolvedCocktails, isHit)

fetchedRefs ==
  LET isMiss(r) == r.id \notin hitIds IN SelectSeq(resolvedCocktails, isMiss)

\* the results array so far, and the number of fetched references whose chunk
\* has been pushed
emitted == IF pc = "done" THEN response.recipes ELSE results

pushedCount == IF pc = "done" THEN Len(cocktails) ELSE chunkStart - 1

\* C28: the results of a batch are the cache hits in input order followed by
\* the fetched references in input order, chunk by chunk, each entry being the
\* one its own promise produced, whatever order the promises settled in.
C28_InputOrder ==
  ((pc = "fetch" /\ isBatchRequest(args)) \/ BatchDone) =>
    LET h == Len(cachedRefs)
    IN /\ Len(cocktails) = Len(fetchedRefs)
       /\ Len(emitted) = h + pushedCount
       /\ \A k \in 1..h : emitted[k].id = cachedRefs[k].id
       /\ \A k \in 1..pushedCount :
            /\ cocktails[k].id = fetchedRefs[k].id
            /\ emitted[h + k].id = fetchedRefs[k].id
            /\ tasks[k].st = "fulfilled" =>
                 emitted[h + k] = formatCocktailResult(Get(tasks[k].value))

\* a finished batch with a cache hit and two fetched references whose entries
\* differ, the promise of the later one having settled first
C28_Witness ==
  /\ BatchDone
  /\ overtaken
  /\ hitIds # {}
  /\ \E j \in 1..Len(cocktails) : \E k \in (j + 1)..Len(cocktails) :
       /\ k < j + batchSize
       /\ response.recipes[Len(cachedRefs) + j] # response.recipes[Len(cachedRefs) + k]


\* C30 as stated: the performance line of a single-recipe response says
\* "(cached)" only when the recipe came from a cache hit at lookup time, and
\* "(fresh)" when it was fetched from upstream during the request.
C30_PerfLine ==
  (pc = "done" /\ response.kind = "SingleRecipe") =>
    LET fetched == \E c \in calls : isFetchCall(c)
    IN /\ response.perf = "cached" => ~fetched
       /\ fetched => response.perf = "fresh"


(***************************************************************************)
(* smart_search_cocktails.  handleSmartSearchCocktails reads the search    *)
(* cache under JSON.stringify(args); on a miss it runs the similarity      *)
(* branch (handleSimilaritySearch) or the main search                      *)
(* (performCocktailSearch, applyAdvancedFilters, fetchCompleteRecipes),    *)
(* stores the response and returns it; whatever is thrown on the way is    *)
(* turned into an error response by the catch block.  The requests of the  *)
(* model carry no query and no limit.                                      *)
(***************************************************************************)
MaxCalls == 2

searchLimit == 20

\* the cocktails of the upstream catalog the searches run over, and their names
SmartCatalog == <<1, 2, 3, 4>>

cocktailName(id) ==
  CASE id = 1 -> "negroni"
    [] id = 2 -> "boulevardier"
    [] id = 3 -> "daiquiri"
    [] OTHER -> "gin and lime"

\* the ingredient list upstream holds for a cocktail
catalogIngredients(id) ==
  LET recipe == upstreamRecipe(id)
  IN IF IsSome(recipe.short_ingredients) THEN Get(recipe.short_ingredients)
     ELSE Get(recipe.ingredients)

\* String.prototype.includes for the lowercased names of the model
includes(text, part) ==
  \/ text = part
  \/ part = ""
  \/ (part = "gin" /\ text \in {"gin (london dry)", "gin and lime"})
  \/ (part = "vermouth" /\ text = "sweet vermouth")

\* the cocktail really contains the ingredient
containsIngredient(id, name) ==
  \E k \in 1..Len(catalogIngredients(id)) :
    includes(toLowerCase(catalogIngredients(id)[k].name), toLowerCase(name))

\* the arguments of smart_search_cocktails: a string that is absent is "", a
\* number that is absent is 0, an array that is absent is None
FilterArgs ==
  {[ingredient |-> i, must_include |-> mi, must_exclude |-> me, preferred_flavors |-> pf,
    similar_to |-> "", similar_to_id |-> 0] :
      i \in {"", "gin"},
      mi \in {None, Some(<<"Campari">>), Some(<<"Gin", "Campari">>)},
      me \in {None, Some(<<"Campari">>)},
      pf \in {None, Some(<<"bitter">>)}}

SimilarityArgs ==
  {[ingredient |-> "", must_include |-> None, must_exclude |-> None,
    preferred_flavors |-> None, similar_to |-> st, similar_to_id |-> si] :
      st \in {"", "negroni"}, si \in {0, 1}} \ FilterArgs

SmartArgs == FilterArgs \cup SimilarityArgs

NoSmartArgs ==
  [ingredient |-> "", must_include |-> None, must_exclude |-> None,
   preferred_flavors |-> None, similar_to |-> "", similar_to_id |-> 0]

\* args.x?.length for an optional array
lengthOf(array) == IF IsSome(array) THEN Len(Get(array)) ELSE 0

\* performCocktailSearch: flavorIngredientMap[flavor.toLowerCase()], "" when absent
flavorIngredient(flavor) ==
  CASE toLowerCase(flavor) = "bitter" -> "campari"
    [] toLowerCase(flavor) = "sweet" -> "vermouth"
    [] toLowerCase(flavor) = "sour" -> "lemon"
    [] toLowerCase(flavor) = "herbal" -> "chartreuse"
    [] toLowerCase(flavor) = "spicy" -> "ginger"
    [] OTHER -> ""

\* the ingredient of the first flavor the map knows, "" when there is none
RECURSIVE firstFlavorIngredient(_)
firstFlavorIngredient(flavors) ==
  IF flavors = <<>> THEN ""
  ELSE IF flavorIngredient(flavors[1]) # "" THEN flavorIngredient(flavors[1])
  ELSE firstFlavorIngredient(Tail(flavors))

\* performCocktailSearch: the searchParams it builds (query, ingredient)
searchParamsOf(a, query) ==
  LET fromArgs == a.ingredient
      fromFlavors ==
        IF lengthOf(a.preferred_flavors) > 0 /\ a.ingredient = ""
        THEN firstFlavorIngredient(Get(a.preferred_flavors))
        ELSE ""
      soFar == IF fromFlavors # "" THEN fromFlavors ELSE fromArgs
  IN [query |-> query,
      ingredient |-> IF lengthOf(a.must_include) > 0 /\ soFar = ""
                     THEN Get(a.must_include)[1]
                     ELSE soFar]

\* an element of the data of a search response: it carries the ingredient list
\* as short_ingredients or only as ingredients
searchHit(id, shape) ==
  [id |-> id,
   short_ingredients |-> IF shape = "short" THEN Some(catalogIngredients(id)) ELSE None,
   ingredients |-> IF shape = "full" THEN Some(catalogIngredients(id)) ELSE None]

\* GET /api/cocktails with filter[name] and filter[ingredient_name]: the
\* cocktails of the catalog that match both filters
upstreamSearch(params, shape) ==
  LET matches(id) ==
        /\ includes(cocktailName(id), toLowerCase(params.query))
        /\ params.ingredient # "" => containsIngredient(id, params.ingredient)
      ids == SelectSeq(SmartCatalog, matches)
  IN [k \in 1..Len(ids) |-> searchHit(ids[k], shape)]

\* applyAdvancedFilters: the lowercased names it reads from a result
shortNames(cocktail) ==
  IF IsSome(cocktail.short_ingredients)
  THEN [k \in 1..Len(Get(cocktail.short_ingredients)) |->
          toLowerCase(Get(cocktail.short_ingredients)[k].name)]
  ELSE <<>>

\* applyAdvancedFilters
applyAdvancedFilters(data, a) ==
  LET hasAll(cocktail) ==
        \A r \in 2..lengthOf(a.must_include) :
          \E k \in 1..Len(shortNames(cocktail)) :
            includes(shortNames(cocktail)[k], toLowerCase(Get(a.must_include)[r]))
      hasNone(cocktail) ==
        ~\E k \in 1..Len(shortNames(cocktail)) :
           \E x \in 1..lengthOf(a.must_exclude) :
             includes(shortNames(cocktail)[k], toLowerCase(Get(a.must_exclude)[x]))
      included == IF lengthOf(a.must_include) > 1 THEN SelectSeq(data, hasAll)
                  ELSE data
      filtered == IF lengthOf(a.must_exclude) > 0 THEN SelectSeq(included, hasNone)
                  ELSE included
  IN SliceTo(filtered, searchLimit)

\* fetchCompleteRecipes(results.slice(0, limit || 20)): one recipe per result,
\* under the id of the result
recipeIds(data) ==
  [k \in 1..Len(SliceTo(data, searchLimit)) |-> data[k].id]

getCachedSearch(c, key, t) == CacheGet(c, key, t)
setCachedSearch(c, key, result, t) == CacheSet(c, key, result, t, cacheTtl, cacheMaxSize)

errorResponse == [kind |-> "error", ids |-> <<>>]

\* variant of cacheAfter: the response of the catch block is stored as well
cacheAfter_always(c, key, result, t) ==
  setCachedSearch(c, key, result, t)

\* handleSmartSearchCocktails: the search cache when the handler returns result;
\* setCachedSearch runs after a branch that returned, never in the catch block
cacheAfter(c, key, result, t) ==
  IF result.kind = "error" THEN c ELSE setCachedSearch(c, key, result, t)

SmartInit ==
  /\ serverIdle
  /\ sim = [phase |-> "ready", args |-> NoSmartArgs, searchCache |-> <<>>,
            upstream |-> 0, fromCache |-> FALSE, afterError |-> FALSE,
            response |-> [kind |-> "none", ids |-> <<>>], n |-> 0]

\* handleSmartSearchCocktails returns result
smartReturn(result, upstreamCalls) ==
  sim' = [sim EXCEPT !.phase = "ready", !.response = result,
                     !.upstream = @ + upstreamCalls,
                     !.searchCache = cacheAfter(@, sim.args, result, now)]

\* smart_search_cocktails arrives and its key is live in the search cache
SmartHit(a) ==
  /\ sim.phase = "ready" /\ sim.n < MaxCalls
  /\ LET g == getCachedSearch(sim.searchCache, a, now)
     IN /\ g.hit
        /\ sim' = [sim EXCEPT !.args = a, !.n = @ + 1, !.upstream = 0,
                              !.fromCache = TRUE, !.afterError = FALSE,
                              !.response = Get(g.value), !.searchCache = g.cache]
  /\ UNCHANGED simOthers

\* smart_search_cocktails arrives and misses the cache: the first upstream call
\* of its branch is issued
SmartMiss(a) ==
  /\ sim.phase = "ready" /\ sim.n < MaxCalls
  /\ LET g == getCachedSearch(sim.searchCache, a, now)
     IN /\ ~g.hit
        /\ sim' = [sim EXCEPT
                     !.args = a, !.n = @ + 1, !.upstream = 1, !.fromCache = FALSE,
                     !.afterError = (sim.response.kind = "error" /\ sim.args = a),
                     !.searchCache = g.cache,
                     !.phase = IF a.similar_to_id # 0 THEN "similar"
                               ELSE IF a.similar_to # "" THEN "lookup"
                               ELSE "search"]
  /\ UNCHANGED simOthers

\* handleSimilaritySearch: the search by name settles; without a match, or on
\* a rejection, performRegularSearch takes over
SmartLookupSettle(outcome) ==
  /\ sim.phase = "lookup"
  /\ sim' = [sim EXCEPT !.upstream = @ + 1,
                        !.phase = IF outcome = "hit" THEN "similar" ELSE "search"]
  /\ UNCHANGED simOthers

\* handleSimilaritySearch: handleFindSimilarCocktails returns or throws; when it
\* throws, performRegularSearch takes over if similar_to is set, else the
\* error reaches the catch block
SmartSimilarSettle(ok) ==
  /\ sim.phase = "similar"
  /\ IF ok THEN smartReturn([kind |-> "similar", ids |-> <<>>], 0)
     ELSE IF sim.args.similar_to # ""
       THEN sim' = [sim EXCEPT !.upstream = @ + 1, !.phase = "search"]
       ELSE smartReturn(errorResponse, 0)
  /\ UNCHANGED simOthers

\* performCocktailSearch: searchCocktails settles; a rejection reaches the
\* catch block, a result is filtered, completed and returned
SmartSearchSettle(outcome) ==
  /\ sim.phase = "search"
  /\ IF outcome = "reject" THEN smartReturn(errorResponse, 0)
     ELSE LET params == searchParamsOf(sim.args, sim.args.similar_to)
              filteredResults ==
                applyAdvancedFilters(upstreamSearch(params, outcome), sim.args)
          IN smartReturn([kind |-> "search", ids |-> recipeIds(filteredResults)],
                         Len(filteredResults))
  /\ UNCHANGED simOthers

SmartTick ==
  /\ sim.phase \in {"ready", "lookup", "similar", "search"}
  /\ now < MaxTicks * TickMs
  /\ now' = now + TickMs
  /\ UNCHANGED <<sim, overtaken, recipeCache, pc, args, reqVars, fetchVars, response, calls,
                 cacheAtStart>>

SmartNext ==
  \/ \E a \in SmartArgs : SmartHit(a)
  \/ \E a \in SmartArgs : SmartMiss(a)
  \/ \E outcome \in SearchOutcomes : SmartLookupSettle(outcome)
  \/ \E ok \in BOOLEAN : SmartSimilarSettle(ok)
  \/ \E outcome \in {"reject", "short", "full"} : SmartSearchSettle(outcome)
  \/ SmartTick

SmartSpec == SmartInit /\ [][SmartNext]_vars

\* a smart search has returned its cocktails
searchReturned == sim.phase = "ready" /\ sim.response.kind = "search"

\* C26 as stated: every cocktail smart_search_cocktails returns contains all
\* the ingredients of must_include, whatever the other arguments are.
C26_MustIncludeAll ==
  searchReturned =>
    \A k \in 1..Len(sim.response.ids) : \A r \in 1..lengthOf(sim.args.must_include) :
      containsIngredient(sim.response.ids[k], Get(sim.args.must_include)[r])

\* C27 as stated: no cocktail smart_search_cocktails returns contains an
\* ingredient of must_exclude, whichever shape the search results have.
C27_MustExcludeNone ==
  searchReturned =>
    \A k \in 1..Len(sim.response.ids) : \A x \in 1..lengthOf(sim.args.must_exclude) :
      ~containsIngredient(sim.response.ids[k], Get(sim.args.must_exclude)[x])

\* C29: no entry of the search cache is an error response; a call answered
\* from the cache made no upstream call; after an error response the key of
\* the call is not live in the cache, and the same call made next misses the
\* cache and goes upstream again.
C29_ErrorsNotCached ==
  /\ \A i \in 1..Len(sim.searchCache) : sim.searchCache[i].value.kind # "error"
  /\ (sim.phase = "ready" /\ sim.fromCache) =>
       (sim.upstream = 0 /\ sim.response.kind \in {"search", "similar"})
  /\ (sim.phase = "ready" /\ sim.response.kind = "error") =>
       (~sim.fromCache /\ sim.upstream >= 1 /\ sim.args \notin LiveKeys(sim.searchCache, now))
  /\ (sim.phase # "ready" \/ sim.n > 0) =>
       (sim.fromCache \/ sim.upstream >= 1)

\* a query that failed is called again, goes upstream and its result is cached
C29_Witness ==
  /\ sim.phase = "ready"
  /\ sim.afterError
  /\ sim.upstream >= 1
  /\ sim.response.kind = "search"
  /\ sim.args \in LiveKeys(sim.searchCache, now)


=============================================================================
